---------------------------- MODULE Spec2Model ----------------------------
(***************************************************************************)
(* Model of the prompt version ledger / active-version router              *)
(* (PromptService, PromptRepository) and of the dataset record store with  *)
(* its live counter and inferred schema (DataSetService, DataSetRepository,*)
(* DataSetRecordRepository).                                               *)
(*                                                                         *)
(* Every awaited repository call is one atomic step (one SQL statement);   *)
(* a service method is a sequence of such steps, and the steps of          *)
(* different requests interleave freely.                                   *)
(***************************************************************************)
EXTENDS Integers, Sequences, FiniteSets, TLC

VARIABLES
    prompts,          \* table Prompts: set of head rows
    promptVersions,   \* table PromptVersions: set of ledger rows
    promptRouters,    \* table PromptRouters: set of router rows
    dataSets,         \* table DataSets: set of dataset rows
    dataSetRecords,   \* table DataSetRecords: set of record rows
    calls,            \* per request slot: the service call in flight, or its result
    completedUpdates, \* history: prompt id -> number of updatePrompt calls that returned
    before,           \* history: the tables as they were when the last call started
    observe           \* which history a run records (fixed by the initial state)

vars == <<prompts, promptVersions, promptRouters, dataSets, dataSetRecords,
          calls, completedUpdates, before, observe>>

tables == <<prompts, promptVersions, promptRouters, dataSets, dataSetRecords>>

-----------------------------------------------------------------------------
(* Bounds of the model *)

MaxPrompts == 2
MaxHeads == 3
MaxVersion == 3
MaxRecords == 3
MaxDataSets == 2

Procs == {"a", "b"}

-----------------------------------------------------------------------------
(* Tenancy scope and entity ids *)

Scope(t, p) == [tenantId |-> t, projectId |-> p]

HomeScope == Scope(1, 1)
OtherTenant == Scope(2, 1)
OtherProject == Scope(1, 2)
AllScopes == {HomeScope, OtherTenant, OtherProject}

EntityId(id, scope) ==
    [id |-> id, tenantId |-> scope.tenantId, projectId |-> scope.projectId]

getProjectId(entityId) == Scope(entityId.tenantId, entityId.projectId)

RowScope(row) == Scope(row.tenantId, row.projectId)

\* a variant of toWhereClause that leaves the tenant out
toWhereClauseAnyTenant(entityId, row) ==
    /\ row.projectId = entityId.projectId
    /\ row.id = entityId.id

toWhereClause(entityId, row) ==
    /\ row.tenantId = entityId.tenantId
    /\ row.projectId = entityId.projectId
    /\ row.id = entityId.id

\* the result of "const [row] = await select ... limit 1"
NoRow == [id |-> 0]
First(rows) == IF rows = {} THEN NoRow
               ELSE CHOOSE r \in rows : \A q \in rows : r.id <= q.id
Found(row) == row.id # 0

\* the id an INTEGER PRIMARY KEY column gives the next inserted row: one more
\* than the largest id in the table
NextId(table) ==
    IF table = {} THEN 1
    ELSE (CHOOSE i \in {r.id : r \in table} : \A r \in table : r.id <= i) + 1

-----------------------------------------------------------------------------
(* Names and slugs: strings as sequences of one-character strings *)

NameX == <<"X">>
NameLowerX == <<"x">>
NameY == <<"Y">>
NameXY == <<"X", " ", "Y">>
SlugX == <<"x">>
SlugY == <<"y">>

UpperCase == {"X", "Y", "C"}
AlphaNum == {"x", "y", "c", "o", "p", "2", "3", "4"}

toLowerCase(c) ==
    CASE c = "X" -> "x"
      [] c = "Y" -> "y"
      [] c = "C" -> "c"
      [] OTHER -> c

RECURSIVE SplitNonAlnum(_, _, _)
\* s.split(/[^a-z0-9]/).filter(Boolean): cur is the segment being read
SplitNonAlnum(s, cur, acc) ==
    LET closed == IF cur = <<>> THEN acc ELSE Append(acc, cur)
    IN  IF s = <<>> THEN closed
        ELSE IF Head(s) \in AlphaNum
             THEN SplitNonAlnum(Tail(s), Append(cur, Head(s)), acc)
             ELSE SplitNonAlnum(Tail(s), <<>>, closed)

RECURSIVE JoinHyphen(_)
JoinHyphen(segs) ==
    IF segs = <<>> THEN <<>>
    ELSE IF Len(segs) = 1 THEN Head(segs)
    ELSE Head(segs) \o <<"-">> \o JoinHyphen(Tail(segs))

generateSlug(name) ==
    JoinHyphen(SplitNonAlnum([i \in 1..Len(name) |-> toLowerCase(name[i])],
                             <<>>, <<>>))

Digit(n) ==
    CASE n = 2 -> "2"
      [] n = 3 -> "3"
      [] OTHER -> "4"

CopyName(name, copyNumber) ==
    IF copyNumber = 1 THEN name \o <<" ", "C", "o", "p", "y">>
    ELSE name \o <<" ", "C", "o", "p", "y", " ", Digit(copyNumber)>>

CopySlug(slug, copyNumber) ==
    IF copyNumber = 1 THEN slug \o <<"-", "c", "o", "p", "y">>
    ELSE slug \o <<"-", "c", "o", "p", "y", "-", Digit(copyNumber)>>

\* an optional input field: <<>> when omitted, <<v>> when given
Omitted == <<>>
Given(v) == <<v>>
OrElse(opt, default) == IF opt = <<>> THEN default ELSE opt[1]

-----------------------------------------------------------------------------
(* PromptRepository: one operator per SQL statement *)

\* a variant of findPromptById that leaves the project out
findPromptByIdAnyProject(promptId) ==
    First({r \in prompts : r.id = promptId.id /\ r.tenantId = promptId.tenantId})

findPromptById(promptId) ==
    First({r \in prompts : toWhereClause(promptId, r)})

findPromptBySlug(projectId, slug) ==
    First({r \in prompts : /\ r.slug = slug
                           /\ r.tenantId = projectId.tenantId
                           /\ r.projectId = projectId.projectId})

\* a variant of findPromptVersion that leaves the tenant out
findPromptVersionAnyTenant(promptId, version) ==
    First({r \in promptVersions : /\ r.promptId = promptId.id
                                  /\ r.projectId = promptId.projectId
                                  /\ r.version = version})

findPromptVersion(promptId, version) ==
    First({r \in promptVersions : /\ r.promptId = promptId.id
                                  /\ r.tenantId = promptId.tenantId
                                  /\ r.projectId = promptId.projectId
                                  /\ r.version = version})

findPromptVersions(promptId) ==
    {r \in promptVersions : /\ r.promptId = promptId.id
                            /\ r.tenantId = promptId.tenantId
                            /\ r.projectId = promptId.projectId}

findPromptRouter(promptId) ==
    First({r \in promptRouters : /\ r.promptId = promptId.id
                                 /\ r.tenantId = promptId.tenantId
                                 /\ r.projectId = promptId.projectId})

\* unique (tenantId, projectId, name) and (tenantId, projectId, slug) on Prompts
PromptsUniqueOk(row, table) ==
    \A r \in table :
        (r.id # row.id /\ RowScope(r) = RowScope(row))
            => (r.name # row.name /\ r.slug # row.slug)

\* unique (tenantId, projectId, promptId, version) on PromptVersions
PromptVersionsUniqueOk(row, table) ==
    \A r \in table :
        ~ (/\ RowScope(r) = RowScope(row)
           /\ r.promptId = row.promptId
           /\ r.version = row.version)

\* a variant of PromptRoutersUniqueOk: a table without the unique index
PromptRoutersNoIndex(row, table) == row.id # 0

\* unique (tenantId, projectId, promptId) on PromptRouters
PromptRoutersUniqueOk(row, table) ==
    \A r \in table :
        ~ (RowScope(r) = RowScope(row) /\ r.promptId = row.promptId)

\* the row repository.createPrompt inserts
NewPromptRow(scope, name, slug, provider, model, body) ==
    [id |-> NextId(prompts), tenantId |-> scope.tenantId,
     projectId |-> scope.projectId, name |-> name, slug |-> slug,
     provider |-> provider, model |-> model, body |-> body,
     latestVersion |-> 1, isActive |-> TRUE]

\* the row repository.createPromptVersion inserts
NewPromptVersionRow(promptId, version, name, provider, model, body, slug) ==
    [id |-> NextId(promptVersions), promptId |-> promptId.id,
     tenantId |-> promptId.tenantId, projectId |-> promptId.projectId,
     version |-> version, name |-> name, provider |-> provider,
     model |-> model, body |-> body, slug |-> slug]

\* a variant of NewPromptRouterRow that files every router under tenant 1, project 1
NewPromptRouterRowHome(promptId, version) ==
    [id |-> NextId(promptRouters), promptId |-> promptId.id,
     tenantId |-> 1, projectId |-> 1, version |-> version]

\* the row repository.createPromptRouter inserts
NewPromptRouterRow(promptId, version) ==
    [id |-> NextId(promptRouters), promptId |-> promptId.id,
     tenantId |-> promptId.tenantId, projectId |-> promptId.projectId,
     version |-> version]

\* UPDATE Prompts SET name, provider, model, body, latestVersion WHERE id, scope
updatePromptRows(promptId, data) ==
    {IF toWhereClause(promptId, r)
        THEN [r EXCEPT !.name = data.name, !.provider = data.provider,
                       !.model = data.model, !.body = data.body,
                       !.latestVersion = data.latestVersion]
        ELSE r : r \in prompts}

\* a variant of renamePromptRows that counts the rename as a version
renamePromptRowsVersioned(promptId, name, slug) ==
    {IF toWhereClause(promptId, r)
        THEN [r EXCEPT !.name = name, !.slug = slug, !.latestVersion = @ + 1]
        ELSE r : r \in prompts}

\* UPDATE Prompts SET name, slug WHERE id, scope
renamePromptRows(promptId, name, slug) ==
    {IF toWhereClause(promptId, r)
        THEN [r EXCEPT !.name = name, !.slug = slug]
        ELSE r : r \in prompts}

\* UPDATE Prompts SET isActive = false WHERE id, scope
deactivatePromptRows(promptId) ==
    {IF toWhereClause(promptId, r) THEN [r EXCEPT !.isActive = FALSE] ELSE r
        : r \in prompts}

\* a variant of updatePromptRouterVersion without the router id in its WHERE
updatePromptRouterVersionAllRows(promptId, routerId, version) ==
    {IF /\ r.tenantId = promptId.tenantId
        /\ r.projectId = promptId.projectId
        THEN [r EXCEPT !.version = version]
        ELSE r : r \in promptRouters}

\* UPDATE PromptRouters SET version WHERE id = routerId, scope
updatePromptRouterVersion(promptId, routerId, version) ==
    {IF /\ r.id = routerId
        /\ r.tenantId = promptId.tenantId
        /\ r.projectId = promptId.projectId
        THEN [r EXCEPT !.version = version]
        ELSE r : r \in promptRouters}

-----------------------------------------------------------------------------
(* Request slots: the call a slot is running, or the result of its last call *)

Ok(value) == [ok |-> TRUE, error |-> "", value |-> value]
Err(message) == [ok |-> FALSE, error |-> message, value |-> NoRow]

Idle == [op |-> "none", pc |-> "done", id |-> EntityId(0, HomeScope),
         result |-> Ok(NoRow)]
\* a finished call leaves its result in the slot when results are recorded,
\* and otherwise only the scope it ran under
Done(op, id, result) ==
    IF observe.results
    THEN [op |-> op, pc |-> "done", id |-> id, result |-> result]
    ELSE [Idle EXCEPT !.id = EntityId(0, getProjectId(id))]

Free(p) == calls[p].pc = "done"
At(p, op, pc) == calls[p].op = op /\ calls[p].pc = pc
SetCall(p, rec) == calls' = [calls EXCEPT ![p] = rec] /\ UNCHANGED observe

\* calls in flight that have yet to insert their head row
PendingHeads ==
    Cardinality({q \in Procs : /\ calls[q].op = "copyPrompt"
                               /\ calls[q].pc \in {"findPromptBySlug", "createPrompt"}})

\* fewer than n heads are in the table or about to be inserted
HeadsBelow(n) == Cardinality(prompts) + PendingHeads < n

\* history: the tables at the start of a call
NoSnapshot == <<>>
StartSnapshot == IF observe.snapshot THEN tables ELSE NoSnapshot

\* history: one more updatePrompt call on this prompt has returned
CountUpdate(promptId) ==
    IF observe.counts
    THEN [completedUpdates EXCEPT ![promptId.id] = @ + 1]
    ELSE completedUpdates

UNCHANGED_DATA == UNCHANGED <<dataSets, dataSetRecords>>

-----------------------------------------------------------------------------
(* PromptService.createPrompt *)

\* repository.createPrompt: the head, latestVersion = 1
CreatePrompt(p, projectId, input) ==
    /\ Free(p)
    /\ Cardinality(prompts) + PendingHeads < MaxHeads
    /\ LET row == NewPromptRow(projectId, input.name, input.slug,
                               input.provider, input.model, input.body)
       IN  IF PromptsUniqueOk(row, prompts)
           THEN /\ prompts' = prompts \cup {row}
                /\ SetCall(p, [op |-> "createPrompt", pc |-> "createPromptVersion",
                               id |-> EntityId(row.id, projectId),
                               input |-> input])
           ELSE /\ UNCHANGED prompts
                /\ SetCall(p, Done("createPrompt", EntityId(0, projectId),
                                   Err("constraint")))
    /\ before' = StartSnapshot
    /\ UNCHANGED <<promptVersions, promptRouters, completedUpdates>>
    /\ UNCHANGED_DATA

\* repository.createPromptVersion: the ledger entry of version 1
CreatePromptInsertVersion(p) ==
    /\ At(p, "createPrompt", "createPromptVersion")
    /\ LET c == calls[p]
           row == NewPromptVersionRow(c.id, 1, c.input.name, c.input.provider,
                                      c.input.model, c.input.body, c.input.slug)
       IN  IF PromptVersionsUniqueOk(row, promptVersions)
           THEN /\ promptVersions' = promptVersions \cup {row}
                /\ SetCall(p, [c EXCEPT !.pc = "createPromptRouter"])
           ELSE /\ UNCHANGED promptVersions
                /\ SetCall(p, Done(c.op, c.id, Err("constraint")))
    /\ UNCHANGED <<prompts, promptRouters, completedUpdates, before>>
    /\ UNCHANGED_DATA

\* repository.createPromptRouter: the router at version 1
CreatePromptInsertRouter(p) ==
    /\ At(p, "createPrompt", "createPromptRouter")
    /\ LET c == calls[p]
           row == NewPromptRouterRow(c.id, 1)
       IN  IF PromptRoutersUniqueOk(row, promptRouters)
           THEN /\ promptRouters' = promptRouters \cup {row}
                /\ SetCall(p, Done(c.op, c.id, Ok(NoRow)))
           ELSE /\ UNCHANGED promptRouters
                /\ SetCall(p, Done(c.op, c.id, Err("constraint")))
    /\ UNCHANGED <<prompts, promptVersions, completedUpdates, before>>
    /\ UNCHANGED_DATA

-----------------------------------------------------------------------------
(* PromptService.updatePrompt *)

\* a variant of MergedFields that keeps the head's value only for the body
MergedFieldsOverwrite(input, currentPrompt) ==
    [name |-> OrElse(input.name, <<>>),
     provider |-> OrElse(input.provider, ""),
     model |-> OrElse(input.model, ""),
     body |-> OrElse(input.body, currentPrompt.body)]

\* the merged fields written to the head and to the new ledger entry
MergedFields(input, currentPrompt) ==
    [name |-> OrElse(input.name, currentPrompt.name),
     provider |-> OrElse(input.provider, currentPrompt.provider),
     model |-> OrElse(input.model, currentPrompt.model),
     body |-> OrElse(input.body, currentPrompt.body)]

\* a variant of NewVersion that skips a number
NewVersionSkips(currentPrompt) == currentPrompt.latestVersion + 2

NewVersion(currentPrompt) == currentPrompt.latestVersion + 1

\* findPromptById, "Prompt not found", newVersion
UpdatePrompt(p, promptId, input) ==
    /\ Free(p)
    /\ LET currentPrompt == findPromptById(promptId)
       IN  IF ~ Found(currentPrompt)
           THEN SetCall(p, Done("updatePrompt", promptId, Err("Prompt not found")))
           ELSE /\ currentPrompt.latestVersion < MaxVersion
                /\ SetCall(p, [op |-> "updatePrompt", pc |-> "updatePrompt",
                               id |-> promptId, input |-> input,
                               currentPrompt |-> currentPrompt,
                               newVersion |-> NewVersion(currentPrompt)])
    /\ before' = StartSnapshot
    /\ UNCHANGED <<prompts, promptVersions, promptRouters, completedUpdates>>
    /\ UNCHANGED_DATA

\* repository.updatePrompt: merged fields and latestVersion = newVersion
UpdatePromptWriteHead(p) ==
    /\ At(p, "updatePrompt", "updatePrompt")
    /\ LET c == calls[p]
           m == MergedFields(c.input, c.currentPrompt)
           rows == updatePromptRows(c.id, [name |-> m.name, provider |-> m.provider,
                                           model |-> m.model, body |-> m.body,
                                           latestVersion |-> c.newVersion])
       IN  IF \A r \in rows : PromptsUniqueOk(r, rows)
           THEN /\ prompts' = rows
                /\ SetCall(p, [c EXCEPT !.pc = "createPromptVersion"])
           ELSE /\ UNCHANGED prompts
                /\ SetCall(p, Done(c.op, c.id, Err("constraint")))
    /\ UNCHANGED <<promptVersions, promptRouters, completedUpdates, before>>
    /\ UNCHANGED_DATA

\* a variant of UpdatePromptInsertVersion that keeps only the newest entry of
\* the prompt
UpdatePromptInsertVersionReplacing(p) ==
    /\ At(p, "updatePrompt", "createPromptVersion")
    /\ LET c == calls[p]
           m == MergedFields(c.input, c.currentPrompt)
           row == NewPromptVersionRow(c.id, c.newVersion, m.name, m.provider,
                                      m.model, m.body, c.currentPrompt.slug)
       IN  /\ promptVersions' =
                   {e \in promptVersions : e.promptId # c.id.id} \cup {row}
           /\ SetCall(p, [c EXCEPT !.pc = "findPromptRouter"])
    /\ UNCHANGED <<prompts, promptRouters, completedUpdates, before>>
    /\ UNCHANGED_DATA

\* repository.createPromptVersion: the ledger entry of newVersion
UpdatePromptInsertVersion(p) ==
    /\ At(p, "updatePrompt", "createPromptVersion")
    /\ LET c == calls[p]
           m == MergedFields(c.input, c.currentPrompt)
           row == NewPromptVersionRow(c.id, c.newVersion, m.name, m.provider,
                                      m.model, m.body, c.currentPrompt.slug)
       IN  IF PromptVersionsUniqueOk(row, promptVersions)
           THEN /\ promptVersions' = promptVersions \cup {row}
                /\ SetCall(p, [c EXCEPT !.pc = "findPromptRouter"])
           ELSE /\ UNCHANGED promptVersions
                /\ SetCall(p, Done(c.op, c.id, Err("constraint")))
    /\ UNCHANGED <<prompts, promptRouters, completedUpdates, before>>
    /\ UNCHANGED_DATA

\* repository.findPromptRouter
UpdatePromptFindRouter(p) ==
    /\ At(p, "updatePrompt", "findPromptRouter")
    /\ SetCall(p, [op |-> "updatePrompt", pc |-> "writeRouter", id |-> calls[p].id,
                   newVersion |-> calls[p].newVersion,
                   existingRouter |-> findPromptRouter(calls[p].id)])
    /\ UNCHANGED <<prompts, promptVersions, promptRouters, completedUpdates, before>>
    /\ UNCHANGED_DATA

\* updatePromptRouterVersion when a router was found, createPromptRouter otherwise
UpdatePromptWriteRouter(p) ==
    /\ At(p, "updatePrompt", "writeRouter")
    /\ LET c == calls[p]
           row == NewPromptRouterRow(c.id, c.newVersion)
       IN  IF Found(c.existingRouter)
           THEN /\ promptRouters' =
                       updatePromptRouterVersion(c.id, c.existingRouter.id, c.newVersion)
                /\ SetCall(p, Done(c.op, c.id, Ok([count |-> 1])))
                /\ completedUpdates' = CountUpdate(c.id)
           ELSE IF PromptRoutersUniqueOk(row, promptRouters)
           THEN /\ promptRouters' = promptRouters \cup {row}
                /\ SetCall(p, Done(c.op, c.id, Ok([count |-> 1])))
                /\ completedUpdates' = CountUpdate(c.id)
           ELSE /\ UNCHANGED <<promptRouters, completedUpdates>>
                /\ SetCall(p, Done(c.op, c.id, Err("constraint")))
    /\ UNCHANGED <<prompts, promptVersions, before>>
    /\ UNCHANGED_DATA

-----------------------------------------------------------------------------
(* PromptService.setRouterVersion *)

\* a variant of SetRouterVersion without the findPromptVersion check
SetRouterVersionUnchecked(p, promptId, version) ==
    /\ Free(p)
    /\ SetCall(p, [op |-> "setRouterVersion", pc |-> "findPromptRouter",
                   id |-> promptId, version |-> version])
    /\ before' = StartSnapshot
    /\ UNCHANGED <<prompts, promptVersions, promptRouters, completedUpdates>>
    /\ UNCHANGED_DATA

\* findPromptVersion, "Version not found"
SetRouterVersion(p, promptId, version) ==
    /\ Free(p)
    /\ IF ~ Found(findPromptVersion(promptId, version))
       THEN SetCall(p, Done("setRouterVersion", promptId, Err("Version not found")))
       ELSE SetCall(p, [op |-> "setRouterVersion", pc |-> "findPromptRouter",
                        id |-> promptId, version |-> version])
    /\ before' = StartSnapshot
    /\ UNCHANGED <<prompts, promptVersions, promptRouters, completedUpdates>>
    /\ UNCHANGED_DATA

\* repository.findPromptRouter
SetRouterVersionFindRouter(p) ==
    /\ At(p, "setRouterVersion", "findPromptRouter")
    /\ SetCall(p, [op |-> "setRouterVersion", pc |-> "writeRouter",
                   id |-> calls[p].id, version |-> calls[p].version,
                   existingRouter |-> findPromptRouter(calls[p].id)])
    /\ UNCHANGED <<prompts, promptVersions, promptRouters, completedUpdates, before>>
    /\ UNCHANGED_DATA

\* updatePromptRouterVersion when a router was found, createPromptRouter otherwise
SetRouterVersionWriteRouter(p) ==
    /\ At(p, "setRouterVersion", "writeRouter")
    /\ LET c == calls[p]
           row == NewPromptRouterRow(c.id, c.version)
       IN  IF Found(c.existingRouter)
           THEN /\ promptRouters' =
                       updatePromptRouterVersion(c.id, c.existingRouter.id, c.version)
                /\ SetCall(p, Done(c.op, c.id, Ok(NoRow)))
           ELSE IF PromptRoutersUniqueOk(row, promptRouters)
           THEN /\ promptRouters' = promptRouters \cup {row}
                /\ SetCall(p, Done(c.op, c.id, Ok(NoRow)))
           ELSE /\ UNCHANGED promptRouters
                /\ SetCall(p, Done(c.op, c.id, Err("constraint")))
    /\ UNCHANGED <<prompts, promptVersions, completedUpdates, before>>
    /\ UNCHANGED_DATA

-----------------------------------------------------------------------------
(* PromptService.copyPrompt *)

\* findPromptById, "Source prompt not found", the first candidate name and slug
CopyPrompt(p, promptId) ==
    /\ Free(p)
    /\ LET sourcePrompt == findPromptById(promptId)
       IN  IF ~ Found(sourcePrompt)
           THEN SetCall(p, Done("copyPrompt", promptId,
                                Err("Source prompt not found")))
           ELSE /\ Cardinality(prompts) + PendingHeads < MaxHeads
                /\ SetCall(p, [op |-> "copyPrompt", pc |-> "findPromptBySlug",
                               id |-> promptId, sourcePrompt |-> sourcePrompt,
                               copyNumber |-> 1,
                               newName |-> CopyName(sourcePrompt.name, 1),
                               newSlug |-> CopySlug(sourcePrompt.slug, 1)])
    /\ before' = StartSnapshot
    /\ UNCHANGED <<prompts, promptVersions, promptRouters, completedUpdates>>
    /\ UNCHANGED_DATA

\* a variant of CopyPromptProbe that passes over every second candidate
CopyPromptProbeSkipping(p) ==
    /\ At(p, "copyPrompt", "findPromptBySlug")
    /\ LET c == calls[p]
           existingPrompt == findPromptBySlug(getProjectId(c.id), c.newSlug)
       IN  IF ~ Found(existingPrompt)
           THEN SetCall(p, [c EXCEPT !.pc = "createPrompt"])
           ELSE SetCall(p, [c EXCEPT
                    !.copyNumber = c.copyNumber + 2,
                    !.newName = CopyName(c.sourcePrompt.name, c.copyNumber + 2),
                    !.newSlug = CopySlug(c.sourcePrompt.slug, c.copyNumber + 2)])
    /\ UNCHANGED <<prompts, promptVersions, promptRouters, completedUpdates, before>>
    /\ UNCHANGED_DATA

\* a variant of CopyPromptProbe that looks the same candidate up again
CopyPromptProbeSameCandidate(p) ==
    /\ At(p, "copyPrompt", "findPromptBySlug")
    /\ LET c == calls[p]
           existingPrompt == findPromptBySlug(getProjectId(c.id), c.newSlug)
       IN  IF ~ Found(existingPrompt)
           THEN SetCall(p, [c EXCEPT !.pc = "createPrompt"])
           ELSE SetCall(p, c)
    /\ UNCHANGED <<prompts, promptVersions, promptRouters, completedUpdates, before>>
    /\ UNCHANGED_DATA

\* one turn of the probing loop: findPromptBySlug, break or the next candidate
CopyPromptProbe(p) ==
    /\ At(p, "copyPrompt", "findPromptBySlug")
    /\ LET c == calls[p]
           existingPrompt == findPromptBySlug(getProjectId(c.id), c.newSlug)
       IN  IF ~ Found(existingPrompt)
           THEN SetCall(p, [c EXCEPT !.pc = "createPrompt"])
           ELSE SetCall(p, [c EXCEPT
                    !.copyNumber = c.copyNumber + 1,
                    !.newName = CopyName(c.sourcePrompt.name, c.copyNumber + 1),
                    !.newSlug = CopySlug(c.sourcePrompt.slug, c.copyNumber + 1)])
    /\ UNCHANGED <<prompts, promptVersions, promptRouters, completedUpdates, before>>
    /\ UNCHANGED_DATA

\* a variant of CopyPromptInsertHead that looks the slug up again and goes
\* back to the probing loop when it has been taken in the meantime
CopyPromptInsertHeadRechecking(p) ==
    /\ At(p, "copyPrompt", "createPrompt")
    /\ LET c == calls[p]
           row == NewPromptRow(getProjectId(c.id), c.newName, c.newSlug,
                               c.sourcePrompt.provider, c.sourcePrompt.model,
                               c.sourcePrompt.body)
       IN  IF Found(findPromptBySlug(getProjectId(c.id), c.newSlug))
           THEN /\ UNCHANGED prompts
                /\ SetCall(p, [c EXCEPT !.pc = "findPromptBySlug"])
           ELSE IF PromptsUniqueOk(row, prompts)
           THEN /\ prompts' = prompts \cup {row}
                /\ SetCall(p, [op |-> "copyPrompt", pc |-> "createPromptVersion",
                               id |-> c.id, sourcePrompt |-> c.sourcePrompt,
                               newPrompt |-> row])
           ELSE /\ UNCHANGED prompts
                /\ SetCall(p, Done(c.op, c.id, Err("constraint")))
    /\ UNCHANGED <<promptVersions, promptRouters, completedUpdates, before>>
    /\ UNCHANGED_DATA

\* a variant of CopyPromptInsertHead that carries the source's latestVersion over
CopyPromptInsertHeadKeepsVersion(p) ==
    /\ At(p, "copyPrompt", "createPrompt")
    /\ LET c == calls[p]
           row == [NewPromptRow(getProjectId(c.id), c.newName, c.newSlug,
                                c.sourcePrompt.provider, c.sourcePrompt.model,
                                c.sourcePrompt.body)
                       EXCEPT !.latestVersion = c.sourcePrompt.latestVersion]
       IN  IF PromptsUniqueOk(row, prompts)
           THEN /\ prompts' = prompts \cup {row}
                /\ SetCall(p, [op |-> "copyPrompt", pc |-> "createPromptVersion",
                               id |-> c.id, sourcePrompt |-> c.sourcePrompt,
                               newPrompt |-> row])
           ELSE /\ UNCHANGED prompts
                /\ SetCall(p, Done(c.op, c.id, Err("constraint")))
    /\ UNCHANGED <<promptVersions, promptRouters, completedUpdates, before>>
    /\ UNCHANGED_DATA

\* repository.createPrompt: the head of the copy
CopyPromptInsertHead(p) ==
    /\ At(p, "copyPrompt", "createPrompt")
    /\ LET c == calls[p]
           row == NewPromptRow(getProjectId(c.id), c.newName, c.newSlug,
                               c.sourcePrompt.provider, c.sourcePrompt.model,
                               c.sourcePrompt.body)
       IN  IF PromptsUniqueOk(row, prompts)
           THEN /\ prompts' = prompts \cup {row}
                /\ SetCall(p, [op |-> "copyPrompt", pc |-> "createPromptVersion",
                               id |-> c.id, sourcePrompt |-> c.sourcePrompt,
                               newPrompt |-> row])
           ELSE /\ UNCHANGED prompts
                /\ SetCall(p, Done(c.op, c.id, Err("constraint")))
    /\ UNCHANGED <<promptVersions, promptRouters, completedUpdates, before>>
    /\ UNCHANGED_DATA

\* repository.createPromptVersion: version 1 of the copy
CopyPromptInsertVersion(p) ==
    /\ At(p, "copyPrompt", "createPromptVersion")
    /\ LET c == calls[p]
           row == NewPromptVersionRow(EntityId(c.newPrompt.id, getProjectId(c.id)), 1,
                                      c.newPrompt.name, c.sourcePrompt.provider,
                                      c.sourcePrompt.model, c.sourcePrompt.body,
                                      c.newPrompt.slug)
       IN  IF PromptVersionsUniqueOk(row, promptVersions)
           THEN /\ promptVersions' = promptVersions \cup {row}
                /\ SetCall(p, [op |-> "copyPrompt", pc |-> "createPromptRouter",
                               id |-> c.id, newPrompt |-> c.newPrompt])
           ELSE /\ UNCHANGED promptVersions
                /\ SetCall(p, Done(c.op, c.id, Err("constraint")))
    /\ UNCHANGED <<prompts, promptRouters, completedUpdates, before>>
    /\ UNCHANGED_DATA

\* repository.createPromptRouter: the router of the copy at version 1
CopyPromptInsertRouter(p) ==
    /\ At(p, "copyPrompt", "createPromptRouter")
    /\ LET c == calls[p]
           row == NewPromptRouterRow(EntityId(c.newPrompt.id, getProjectId(c.id)), 1)
       IN  IF PromptRoutersUniqueOk(row, promptRouters)
           THEN /\ promptRouters' = promptRouters \cup {row}
                /\ SetCall(p, Done(c.op, c.id, Ok([id |-> c.newPrompt.id])))
           ELSE /\ UNCHANGED promptRouters
                /\ SetCall(p, Done(c.op, c.id, Err("constraint")))
    /\ UNCHANGED <<prompts, promptVersions, completedUpdates, before>>
    /\ UNCHANGED_DATA

-----------------------------------------------------------------------------
(* PromptService.renamePrompt *)

\* findPromptById, "Prompt not found", generateSlug
RenamePrompt(p, promptId, name) ==
    /\ Free(p)
    /\ IF ~ Found(findPromptById(promptId))
       THEN SetCall(p, Done("renamePrompt", promptId, Err("Prompt not found")))
       ELSE SetCall(p, [op |-> "renamePrompt", pc |-> "findPromptBySlug",
                        id |-> promptId, name |-> name,
                        generatedSlug |-> generateSlug(name)])
    /\ before' = StartSnapshot
    /\ UNCHANGED <<prompts, promptVersions, promptRouters, completedUpdates>>
    /\ UNCHANGED_DATA

\* findPromptBySlug, "Slug already in use" unless the holder is the prompt itself
RenamePromptCheckSlug(p) ==
    /\ At(p, "renamePrompt", "findPromptBySlug")
    /\ LET c == calls[p]
           slugConflict == findPromptBySlug(getProjectId(c.id), c.generatedSlug)
       IN  IF Found(slugConflict) /\ slugConflict.id # c.id.id
           THEN SetCall(p, Done(c.op, c.id, Err("Slug already in use")))
           ELSE SetCall(p, [c EXCEPT !.pc = "renamePrompt"])
    /\ UNCHANGED <<prompts, promptVersions, promptRouters, completedUpdates, before>>
    /\ UNCHANGED_DATA

\* repository.renamePrompt: name and slug of the head
RenamePromptWrite(p) ==
    /\ At(p, "renamePrompt", "renamePrompt")
    /\ LET c == calls[p]
           rows == renamePromptRows(c.id, c.name, c.generatedSlug)
       IN  IF \A r \in rows : PromptsUniqueOk(r, rows)
           THEN /\ prompts' = rows
                /\ SetCall(p, [op |-> "renamePrompt", pc |-> "findPromptById",
                               id |-> c.id])
           ELSE /\ UNCHANGED prompts
                /\ SetCall(p, Done(c.op, c.id, Err("constraint")))
    /\ UNCHANGED <<promptVersions, promptRouters, completedUpdates, before>>
    /\ UNCHANGED_DATA

\* findPromptById again: the renamed head is the result
RenamePromptRefetch(p) ==
    /\ At(p, "renamePrompt", "findPromptById")
    /\ LET c == calls[p]
           updatedPrompt == findPromptById(c.id)
       IN  IF ~ Found(updatedPrompt)
           THEN SetCall(p, Done(c.op, c.id, Err("Failed to retrieve updated prompt")))
           ELSE SetCall(p, Done(c.op, c.id,
                    Ok([id |-> updatedPrompt.id, name |-> updatedPrompt.name,
                        slug |-> updatedPrompt.slug])))
    /\ UNCHANGED <<prompts, promptVersions, promptRouters, completedUpdates, before>>
    /\ UNCHANGED_DATA

-----------------------------------------------------------------------------
(* PromptService.deactivatePrompt, getActivePromptVersion *)

DeactivatePrompt(p, promptId) ==
    /\ Free(p)
    /\ prompts' = deactivatePromptRows(promptId)
    /\ SetCall(p, Done("deactivatePrompt", promptId, Ok(NoRow)))
    /\ before' = StartSnapshot
    /\ UNCHANGED <<promptVersions, promptRouters, completedUpdates>>
    /\ UNCHANGED_DATA

\* findPromptRouter; null when there is no router
GetActivePromptVersion(p, promptId) ==
    /\ Free(p)
    /\ LET router == findPromptRouter(promptId)
       IN  IF ~ Found(router)
           THEN SetCall(p, Done("getActivePromptVersion", promptId,
                                Ok([id |-> 0, router |-> 0])))
           ELSE SetCall(p, [op |-> "getActivePromptVersion",
                            pc |-> "findPromptVersion", id |-> promptId,
                            router |-> router])
    /\ before' = StartSnapshot
    /\ UNCHANGED <<prompts, promptVersions, promptRouters, completedUpdates>>
    /\ UNCHANGED_DATA

\* a variant of GetActivePromptVersionFind that reads the head's latestVersion
GetActivePromptVersionFindLatest(p) ==
    /\ At(p, "getActivePromptVersion", "findPromptVersion")
    /\ LET c == calls[p]
           version == findPromptVersion(c.id, findPromptById(c.id).latestVersion)
       IN  SetCall(p, Done(c.op, c.id,
               Ok(IF Found(version)
                  THEN [id |-> version.id, router |-> c.router.version,
                        version |-> version.version, body |-> version.body]
                  ELSE [id |-> 0, router |-> c.router.version])))
    /\ UNCHANGED <<prompts, promptVersions, promptRouters, completedUpdates, before>>
    /\ UNCHANGED_DATA

\* findPromptVersion(promptId, router.version); null when it is missing
GetActivePromptVersionFind(p) ==
    /\ At(p, "getActivePromptVersion", "findPromptVersion")
    /\ LET c == calls[p]
           version == findPromptVersion(c.id, c.router.version)
       IN  SetCall(p, Done(c.op, c.id,
               Ok(IF Found(version)
                  THEN [id |-> version.id, router |-> c.router.version,
                        version |-> version.version, body |-> version.body]
                  ELSE [id |-> 0, router |-> c.router.version])))
    /\ UNCHANGED <<prompts, promptVersions, promptRouters, completedUpdates, before>>
    /\ UNCHANGED_DATA

-----------------------------------------------------------------------------
(* PromptService.getActiveRouterVersion, getPromptById *)

\* findPromptRouter; router?.version ?? null (0 stands for null)
GetActiveRouterVersion(p, promptId) ==
    /\ Free(p)
    /\ LET router == findPromptRouter(promptId)
       IN  SetCall(p, Done("getActiveRouterVersion", promptId,
                           Ok([version |-> IF Found(router) THEN router.version
                                           ELSE 0])))
    /\ before' = StartSnapshot
    /\ UNCHANGED <<prompts, promptVersions, promptRouters, completedUpdates>>
    /\ UNCHANGED_DATA

\* findPromptById; null when there is no such head
GetPromptById(p, promptId) ==
    /\ Free(p)
    /\ LET prompt == findPromptById(promptId)
       IN  IF ~ Found(prompt)
           THEN SetCall(p, Done("getPromptById", promptId, Ok(NoRow)))
           ELSE SetCall(p, [op |-> "getPromptById", pc |-> "findPromptVersion",
                            id |-> promptId, prompt |-> prompt])
    /\ before' = StartSnapshot
    /\ UNCHANGED <<prompts, promptVersions, promptRouters, completedUpdates>>
    /\ UNCHANGED_DATA

\* findPromptVersion(promptId, prompt.latestVersion): currentVersion, or null
GetPromptByIdFind(p) ==
    /\ At(p, "getPromptById", "findPromptVersion")
    /\ LET c == calls[p]
           latestVersion == findPromptVersion(c.id, c.prompt.latestVersion)
       IN  SetCall(p, Done(c.op, c.id,
               Ok([id |-> c.prompt.id, latestVersion |-> c.prompt.latestVersion,
                   body |-> c.prompt.body,
                   currentVersion |-> IF Found(latestVersion)
                                      THEN [version |-> latestVersion.version,
                                            body |-> latestVersion.body]
                                      ELSE [version |-> 0, body |-> ""]])))
    /\ UNCHANGED <<prompts, promptVersions, promptRouters, completedUpdates, before>>
    /\ UNCHANGED_DATA

-----------------------------------------------------------------------------
(* Statements the tests run on the database directly, between service calls *)

\* DELETE FROM PromptRouters WHERE promptId = ?
RawDeletePromptRouters(id) ==
    /\ \A p \in Procs : calls[p].pc \in {"done", "off"}
    /\ \E r \in promptRouters : r.promptId = id
    /\ promptRouters' = {r \in promptRouters : r.promptId # id}
    /\ UNCHANGED <<prompts, promptVersions, completedUpdates, before, calls, observe>>
    /\ UNCHANGED_DATA

\* DELETE FROM PromptVersions WHERE promptId = ?
RawDeletePromptVersions(id) ==
    /\ \A p \in Procs : calls[p].pc \in {"done", "off"}
    /\ \E r \in promptVersions : r.promptId = id
    /\ promptVersions' = {r \in promptVersions : r.promptId # id}
    /\ UNCHANGED <<prompts, promptRouters, completedUpdates, before, calls, observe>>
    /\ UNCHANGED_DATA

-----------------------------------------------------------------------------
(* Record payloads: a tagged union over null, boolean, number, string,      *)
(* array and object; the persisted schema text                             *)

Leaf(t) == [t |-> t, f |-> <<>>]
Obj(fields) == [t |-> "object", f |-> fields]

Arr(elements) == [t |-> "array", f |-> elements]

EmptyMap == <<>>

RECURSIVE collectFields(_, _)
RECURSIVE CollectEntries(_, _, _, _)

RECURSIVE CollectEntriesFlatKeys(_, _, _, _)

\* a variant of CollectEntries that names every entry by its key alone
CollectEntriesFlatKeys(value, keys, prefix, fields) ==
    IF keys = {} THEN fields
    ELSE LET key == CHOOSE k \in keys : TRUE
         IN  CollectEntriesFlatKeys(value, keys \ {key}, prefix,
                                    collectFields(value.f[key], key) @@ fields)

\* the for-loop of collectFields over Object.entries(value)
CollectEntries(value, keys, prefix, fields) ==
    IF keys = {} THEN fields
    ELSE LET key == CHOOSE k \in keys : TRUE
             nextPrefix == IF prefix # "" THEN prefix \o "." \o key ELSE key
         IN  CollectEntries(value, keys \ {key}, prefix,
                            collectFields(value.f[key], nextPrefix) @@ fields)

collectFields(value, prefix) ==
    LET path == IF prefix # "" THEN prefix ELSE "value"
    IN  IF value.t = "null" THEN (path :> "null")
        ELSE IF value.t = "array" THEN (path :> "array")
        ELSE IF value.t = "object"
             THEN IF DOMAIN value.f = {} /\ prefix # ""
                  THEN (path :> "object")
                  ELSE CollectEntries(value, DOMAIN value.f, prefix, EmptyMap)
        ELSE (path :> value.t)

\* property names every plain object inherits from Object.prototype:
\* schema.fields[path] yields the inherited member for them, not undefined
InheritedProperties == {"constructor", "toString", "valueOf", "hasOwnProperty"}

\* schema.fields after mergeSchema(schema, variables): "existing" is the own
\* entry of the path, else the inherited member (truthy, without a type), else
\* undefined
mergeSchema(schemaFields, variables) ==
    LET fields == collectFields(variables, "")
    IN  [path \in DOMAIN schemaFields \cup DOMAIN fields |->
            IF path \notin DOMAIN fields THEN schemaFields[path]
            ELSE IF path \notin DOMAIN schemaFields
                 THEN IF path \in InheritedProperties
                      THEN [type |-> "mixed"]
                      ELSE [type |-> fields[path]]
            ELSE IF /\ schemaFields[path].type # fields[path]
                    /\ schemaFields[path].type # "mixed"
                 THEN [type |-> "mixed"]
                 ELSE schemaFields[path]]

\* the schema column: "{}" by default, JSON.stringify({fields}) once written
DefaultSchemaText == [fmt |-> "flat", map |-> EmptyMap]
stringifySchema(schemaFields) == [fmt |-> "fields", map |-> schemaFields]

\* parseSchema: {fields: {...}} is taken as is, a flat {path: "type"} object is
\* converted entry by entry, anything unparsable gives no fields
parseSchema(text) ==
    IF text.fmt = "fields" THEN text.map
    ELSE IF text.fmt = "flat"
         THEN [path \in DOMAIN text.map |-> [type |-> text.map[path]]]
    ELSE EmptyMap

Range(seq) == {seq[i] : i \in 1..Len(seq)}

-----------------------------------------------------------------------------
(* DataSetRepository, DataSetRecordRepository: one operator per statement *)

findById(entityId) ==
    First({r \in dataSets : toWhereClause(entityId, r) /\ r.isDeleted = FALSE})

findBySlug(context, slug) ==
    First({r \in dataSets : /\ r.tenantId = context.tenantId
                            /\ r.projectId = context.projectId
                            /\ r.slug = slug
                            /\ r.isDeleted = FALSE})

NewDataSetRow(context, name, slug, schema) ==
    [id |-> NextId(dataSets), tenantId |-> context.tenantId,
     projectId |-> context.projectId, name |-> name, slug |-> slug,
     isDeleted |-> FALSE, countOfRecords |-> 0, schema |-> schema]

\* a variant of incrementRecordCountBy that adds one whatever the amount
incrementRecordCountByOne(entityId, amount) ==
    {IF toWhereClause(entityId, r)
        THEN [r EXCEPT !.countOfRecords = @ + 1]
        ELSE r : r \in dataSets}

\* UPDATE DataSets SET countOfRecords = countOfRecords + amount WHERE id, scope
incrementRecordCountBy(entityId, amount) ==
    IF amount = 0 THEN dataSets
    ELSE {IF toWhereClause(entityId, r)
             THEN [r EXCEPT !.countOfRecords = @ + amount]
             ELSE r : r \in dataSets}

\* a variant of softDelete that flips the flag of the matched row
softDeleteFlipping(entityId) ==
    {IF toWhereClause(entityId, r) THEN [r EXCEPT !.isDeleted = ~ @] ELSE r
        : r \in dataSets}

\* UPDATE DataSets SET isDeleted = true WHERE id, scope
softDelete(entityId) ==
    {IF toWhereClause(entityId, r) THEN [r EXCEPT !.isDeleted = TRUE] ELSE r
        : r \in dataSets}

\* a variant of updateSchema that leaves the id out of the WHERE
updateSchemaInProject(entityId, schema) ==
    {IF /\ r.tenantId = entityId.tenantId
        /\ r.projectId = entityId.projectId
        THEN [r EXCEPT !.schema = schema] ELSE r
        : r \in dataSets}

\* UPDATE DataSets SET schema WHERE id, scope
updateSchema(entityId, schema) ==
    {IF toWhereClause(entityId, r) THEN [r EXCEPT !.schema = schema] ELSE r
        : r \in dataSets}

NewDataSetRecordRow(entityId, variables) ==
    [id |-> NextId(dataSetRecords), tenantId |-> entityId.tenantId,
     projectId |-> entityId.projectId, dataSetId |-> entityId.id,
     variables |-> variables, isDeleted |-> FALSE]

\* a variant of softDeleteManyMatches that leaves the dataset out of the WHERE
softDeleteManyMatchesAnyDataSet(dataSetId, recordIds) ==
    IF Len(recordIds) = 0 THEN {}
    ELSE {r \in dataSetRecords : /\ r.tenantId = dataSetId.tenantId
                                 /\ r.projectId = dataSetId.projectId
                                 /\ r.id \in Range(recordIds)
                                 /\ r.isDeleted = FALSE}

\* the rows softDeleteMany's UPDATE ... RETURNING matches
softDeleteManyMatches(dataSetId, recordIds) ==
    IF Len(recordIds) = 0 THEN {}
    ELSE {r \in dataSetRecords : /\ r.tenantId = dataSetId.tenantId
                                 /\ r.projectId = dataSetId.projectId
                                 /\ r.dataSetId = dataSetId.id
                                 /\ r.id \in Range(recordIds)
                                 /\ r.isDeleted = FALSE}

\* a variant of softDeleteMany that deletes the matched rows
softDeleteManyRemoving(dataSetId, recordIds) ==
    dataSetRecords \ softDeleteManyMatches(dataSetId, recordIds)

softDeleteMany(dataSetId, recordIds) ==
    {IF r \in softDeleteManyMatches(dataSetId, recordIds)
        THEN [r EXCEPT !.isDeleted = TRUE] ELSE r : r \in dataSetRecords}

\* a variant of listByDataSet that leaves the tenant out of the WHERE
listByDataSetAnyTenant(dataSetId) ==
    {r \in dataSetRecords : /\ r.projectId = dataSetId.projectId
                            /\ r.dataSetId = dataSetId.id
                            /\ r.isDeleted = FALSE}

\* the live records of a dataset, as listByDataSet selects them
listByDataSet(dataSetId) ==
    {r \in dataSetRecords : /\ r.tenantId = dataSetId.tenantId
                            /\ r.projectId = dataSetId.projectId
                            /\ r.dataSetId = dataSetId.id
                            /\ r.isDeleted = FALSE}

\* ORDER BY createdAt DESC: rows are stamped at their insert, so a row with a
\* larger id is never older
RECURSIVE OrderByCreatedDesc(_)
OrderByCreatedDesc(rows) ==
    IF rows = {} THEN <<>>
    ELSE LET newest == CHOOSE r \in rows : \A o \in rows : o.id <= r.id
         IN  <<newest>> \o OrderByCreatedDesc(rows \ {newest})

\* LIMIT pageSize OFFSET offset
LimitOffset(rows, limit, offset) ==
    [i \in 1..(IF Len(rows) - offset < limit
               THEN (IF Len(rows) - offset < 0 THEN 0 ELSE Len(rows) - offset)
               ELSE limit) |-> rows[offset + i]]

\* the first query of listByDataSetPaginated: a page of the live rows
selectPage(dataSetId, pagination) ==
    LimitOffset(OrderByCreatedDesc(listByDataSet(dataSetId)),
                pagination.pageSize,
                (pagination.page - 1) * pagination.pageSize)

\* the second query of listByDataSetPaginated: countResult.length
countLive(dataSetId) == Cardinality(listByDataSet(dataSetId))

\* a variant of MathCeil that drops the fraction
MathCeilTruncating(total, pageSize) == total \div pageSize

\* Math.ceil(total / pageSize) for a positive pageSize
MathCeil(total, pageSize) ==
    IF total % pageSize = 0 THEN total \div pageSize
    ELSE (total \div pageSize) + 1

UNCHANGED_PROMPTS ==
    UNCHANGED <<prompts, promptVersions, promptRouters, completedUpdates>>

PendingDataSets ==
    Cardinality({q \in Procs : calls[q].op = "createDataSet" /\ ~ Free(q)})

PendingRecords ==
    Cardinality({q \in Procs : At(q, "createDataSetRecord", "createMany")})

-----------------------------------------------------------------------------
(* DataSetService.createDataSet, deleteDataSet *)

\* generateSlug and the first findBySlug of the loop
CreateDataSet(p, context, input) ==
    /\ Free(p)
    /\ Cardinality(dataSets) + PendingDataSets < MaxDataSets
    /\ LET baseSlug == generateSlug(input.name)
           c == [op |-> "createDataSet", pc |-> "create",
                 id |-> EntityId(0, context), input |-> input,
                 baseSlug |-> baseSlug, slug |-> baseSlug, attempt |-> 1]
       IN  IF Found(findBySlug(context, baseSlug))
           THEN SetCall(p, [c EXCEPT !.pc = "findBySlug", !.attempt = 2,
                                     !.slug = baseSlug \o <<"-", Digit(2)>>])
           ELSE SetCall(p, c)
    /\ before' = StartSnapshot
    /\ UNCHANGED <<dataSets, dataSetRecords>>
    /\ UNCHANGED_PROMPTS

\* a later turn of the loop: findBySlug, the next slug or the insert
CreateDataSetProbe(p) ==
    /\ At(p, "createDataSet", "findBySlug")
    /\ LET c == calls[p]
       IN  IF Found(findBySlug(getProjectId(c.id), c.slug))
           THEN SetCall(p, [c EXCEPT !.attempt = c.attempt + 1,
                    !.slug = c.baseSlug \o <<"-", Digit(c.attempt + 1)>>])
           ELSE SetCall(p, [c EXCEPT !.pc = "create"])
    /\ UNCHANGED <<dataSets, dataSetRecords, before>>
    /\ UNCHANGED_PROMPTS

\* repository.create: countOfRecords = 0, schema = input.schema ?? "{}"
CreateDataSetInsert(p) ==
    /\ At(p, "createDataSet", "create")
    /\ LET c == calls[p]
           row == NewDataSetRow(getProjectId(c.id), c.input.name, c.slug,
                                OrElse(c.input.schema, DefaultSchemaText))
       IN  /\ dataSets' = dataSets \cup {row}
           /\ SetCall(p, Done(c.op, EntityId(row.id, getProjectId(c.id)),
                              Ok([id |-> row.id])))
    /\ UNCHANGED <<dataSetRecords, before>>
    /\ UNCHANGED_PROMPTS

DeleteDataSet(p, entityId) ==
    /\ Free(p)
    /\ dataSets' = softDelete(entityId)
    /\ SetCall(p, Done("deleteDataSet", entityId, Ok(NoRow)))
    /\ before' = StartSnapshot
    /\ UNCHANGED dataSetRecords
    /\ UNCHANGED_PROMPTS

-----------------------------------------------------------------------------
(* DataSetService.createDataSetRecord *)

\* findById, "Dataset not found", parseSchema and mergeSchema
CreateDataSetRecord(p, entityId, variables) ==
    /\ Free(p)
    /\ LET dataset == findById(entityId)
       IN  IF ~ Found(dataset)
           THEN SetCall(p, Done("createDataSetRecord", entityId,
                                Err("Dataset not found")))
           ELSE /\ Cardinality(dataSetRecords) + PendingRecords < MaxRecords
                /\ SetCall(p, [op |-> "createDataSetRecord", pc |-> "createMany",
                               id |-> entityId, variables |-> variables,
                               schema |-> mergeSchema(parseSchema(dataset.schema),
                                                      variables)])
    /\ before' = StartSnapshot
    /\ UNCHANGED <<dataSets, dataSetRecords>>
    /\ UNCHANGED_PROMPTS

\* recordRepository.createMany: the record row
CreateDataSetRecordInsert(p) ==
    /\ At(p, "createDataSetRecord", "createMany")
    /\ LET c == calls[p]
           row == NewDataSetRecordRow(c.id, c.variables)
       IN  /\ dataSetRecords' = dataSetRecords \cup {row}
           /\ SetCall(p, [op |-> c.op, pc |-> "incrementRecordCountBy",
                          id |-> c.id, schema |-> c.schema, record |-> row.id])
    /\ UNCHANGED <<dataSets, before>>
    /\ UNCHANGED_PROMPTS

\* repository.incrementRecordCountBy(entityId, 1)
CreateDataSetRecordIncrement(p) ==
    /\ At(p, "createDataSetRecord", "incrementRecordCountBy")
    /\ dataSets' = incrementRecordCountBy(calls[p].id, 1)
    /\ SetCall(p, [calls[p] EXCEPT !.pc = "updateSchema"])
    /\ UNCHANGED <<dataSetRecords, before>>
    /\ UNCHANGED_PROMPTS

\* repository.updateSchema(entityId, JSON.stringify(schema))
CreateDataSetRecordUpdateSchema(p) ==
    /\ At(p, "createDataSetRecord", "updateSchema")
    /\ dataSets' = updateSchema(calls[p].id, stringifySchema(calls[p].schema))
    /\ SetCall(p, Done(calls[p].op, calls[p].id, Ok([id |-> calls[p].record])))
    /\ UNCHANGED <<dataSetRecords, before>>
    /\ UNCHANGED_PROMPTS

-----------------------------------------------------------------------------
(* DataSetService.deleteDataSetRecords *)

\* a variant of DeleteDataSetRecords that counts the ids of the request
DeleteDataSetRecordsByLength(p, entityId, recordIds) ==
    /\ Free(p)
    /\ LET deleted == Len(recordIds)
       IN  /\ dataSetRecords' = softDeleteMany(entityId, recordIds)
           /\ IF deleted > 0
              THEN SetCall(p, [op |-> "deleteDataSetRecords",
                               pc |-> "incrementRecordCountBy", id |-> entityId,
                               deleted |-> deleted])
              ELSE SetCall(p, Done("deleteDataSetRecords", entityId,
                                   Ok([deleted |-> deleted])))
    /\ before' = StartSnapshot
    /\ UNCHANGED dataSets
    /\ UNCHANGED_PROMPTS

\* recordRepository.softDeleteMany; done at once when nothing was deleted
DeleteDataSetRecords(p, entityId, recordIds) ==
    /\ Free(p)
    /\ LET deleted == Cardinality(softDeleteManyMatches(entityId, recordIds))
       IN  /\ dataSetRecords' = softDeleteMany(entityId, recordIds)
           /\ IF deleted > 0
              THEN SetCall(p, [op |-> "deleteDataSetRecords",
                               pc |-> "incrementRecordCountBy", id |-> entityId,
                               deleted |-> deleted])
              ELSE SetCall(p, Done("deleteDataSetRecords", entityId,
                                   Ok([deleted |-> deleted])))
    /\ before' = StartSnapshot
    /\ UNCHANGED dataSets
    /\ UNCHANGED_PROMPTS

\* repository.incrementRecordCountBy(entityId, -deleted)
DeleteDataSetRecordsDecrement(p) ==
    /\ At(p, "deleteDataSetRecords", "incrementRecordCountBy")
    /\ dataSets' = incrementRecordCountBy(calls[p].id, 0 - calls[p].deleted)
    /\ SetCall(p, Done(calls[p].op, calls[p].id, Ok([deleted |-> calls[p].deleted])))
    /\ UNCHANGED <<dataSetRecords, before>>
    /\ UNCHANGED_PROMPTS

-----------------------------------------------------------------------------
(* DataSetService.listDataSetRecordsPaginated *)

\* the call: both queries of listByDataSetPaginated are issued together
ListDataSetRecordsPaginated(p, entityId, pagination) ==
    /\ Free(p)
    /\ SetCall(p, [op |-> "listDataSetRecordsPaginated",
                   pc |-> "listByDataSetPaginated", id |-> entityId,
                   pagination |-> pagination, selected |-> FALSE,
                   counted |-> FALSE, records |-> <<>>, total |-> 0])
    /\ before' = StartSnapshot
    /\ UNCHANGED <<dataSets, dataSetRecords>>
    /\ UNCHANGED_PROMPTS

\* the result of the method once both queries have answered
ListResult(c) ==
    Ok([records |-> c.records, total |-> c.total, page |-> c.pagination.page,
        pageSize |-> c.pagination.pageSize,
        totalPages |-> MathCeil(c.total, c.pagination.pageSize)])

ListAnswered(p, c) ==
    IF c.selected /\ c.counted
    THEN SetCall(p, Done(c.op, c.id, ListResult(c)))
    ELSE SetCall(p, c)

\* the select of the page is answered
ListSelectRecords(p) ==
    /\ At(p, "listDataSetRecordsPaginated", "listByDataSetPaginated")
    /\ ~ calls[p].selected
    /\ ListAnswered(p, [calls[p] EXCEPT
                            !.selected = TRUE,
                            !.records = selectPage(calls[p].id,
                                                   calls[p].pagination)])
    /\ UNCHANGED <<dataSets, dataSetRecords, before>>
    /\ UNCHANGED_PROMPTS

\* the count of the live rows is answered
ListCountRecords(p) ==
    /\ At(p, "listDataSetRecordsPaginated", "listByDataSetPaginated")
    /\ ~ calls[p].counted
    /\ ListAnswered(p, [calls[p] EXCEPT !.counted = TRUE,
                                        !.total = countLive(calls[p].id)])
    /\ UNCHANGED <<dataSets, dataSetRecords, before>>
    /\ UNCHANGED_PROMPTS

-----------------------------------------------------------------------------
(* A statement that fails: the awaited call rejects, the method throws and  *)
(* none of its later statements run                                        *)

StatementFails(p) ==
    /\ calls[p].pc \notin {"done", "off"}
    /\ SetCall(p, Done(calls[p].op, calls[p].id, Err("statement failed")))
    /\ UNCHANGED <<prompts, promptVersions, promptRouters, dataSets,
                   dataSetRecords, completedUpdates, before>>

-----------------------------------------------------------------------------
(* Inputs *)

PromptInput(name, slug, body) ==
    [name |-> name, slug |-> slug, provider |-> "openai", model |-> "gpt-4",
     body |-> body]

UpdateInput(name, provider, model, body) ==
    [name |-> name, provider |-> provider, model |-> model, body |-> body]

BodyOnly == UpdateInput(Omitted, Omitted, Omitted, Given("v2"))
NameOnly == UpdateInput(Given(NameY), Omitted, Omitted, Omitted)
NameModelBody == UpdateInput(Given(NameY), Omitted, Given("gpt-4-turbo"), Given("v3"))
NothingGiven == UpdateInput(Omitted, Omitted, Omitted, Omitted)
UpdateInputs == {BodyOnly, NameOnly, NameModelBody, NothingGiven}

PromptIds(scopes) == {EntityId(i, s) : i \in 1..MaxPrompts, s \in scopes}
FirstPromptIn(scopes) == {EntityId(1, s) : s \in scopes}
FirstPrompt == FirstPromptIn({HomeScope})
Versions == 1..MaxVersion

DataSetInput(name) == [name |-> name, schema |-> Omitted]
DataSetIds(scopes) == {EntityId(i, s) : i \in 1..MaxDataSets, s \in scopes}

\* {user: {name: "Jane"}, tags: ["a", "b"]} and {user: {name: 5}}
JaneWithTags ==
    Obj([user |-> Obj([name |-> Leaf("string")]), tags |-> Leaf("array")])
NumericName == Obj([user |-> Obj([name |-> Leaf("number")])])
\* {constructor: "gpt"}
ConstructorField == Obj([constructor |-> Leaf("string")])

RecordIdLists == {<<>>, <<1>>, <<2>>, <<1, 2>>, <<1, 1>>}

Observe(results, snapshot, counts) ==
    [results |-> results, snapshot |-> snapshot, counts |-> counts]

\* a slot that takes no request in this run
OutOfService == [Idle EXCEPT !.pc = "off"]

InitTables ==
    /\ prompts = {}
    /\ promptVersions = {}
    /\ promptRouters = {}
    /\ dataSets = {}
    /\ dataSetRecords = {}
    /\ completedUpdates = [i \in 1..MaxHeads |-> 0]

\* both slots serve requests
BothSlots == calls = [p \in Procs |-> Idle]

\* one client, one request at a time: slot "a" serves prompt requests, slot "b"
\* dataset requests, and a run has one of the two in service (the two services
\* share no table)
OneSlot ==
    \/ calls = [p \in Procs |-> IF p = "a" THEN Idle ELSE OutOfService]
    \/ calls = [p \in Procs |-> IF p = "b" THEN Idle ELSE OutOfService]

Quiescent == \A p \in Procs : calls[p].pc \in {"done", "off"}

\* the later statements of each service method
StepCreatePrompt(p) ==
    \/ CreatePromptInsertVersion(p)
    \/ CreatePromptInsertRouter(p)

StepUpdatePrompt(p) ==
    \/ UpdatePromptWriteHead(p)
    \/ UpdatePromptInsertVersion(p)
    \/ UpdatePromptFindRouter(p)
    \/ UpdatePromptWriteRouter(p)

StepSetRouterVersion(p) ==
    \/ SetRouterVersionFindRouter(p)
    \/ SetRouterVersionWriteRouter(p)

StepCopyPrompt(p) ==
    \/ CopyPromptProbe(p)
    \/ CopyPromptInsertHead(p)
    \/ CopyPromptInsertVersion(p)
    \/ CopyPromptInsertRouter(p)

StepRenamePrompt(p) ==
    \/ RenamePromptCheckSlug(p)
    \/ RenamePromptWrite(p)
    \/ RenamePromptRefetch(p)

StepCreateDataSet(p) ==
    \/ CreateDataSetProbe(p)
    \/ CreateDataSetInsert(p)

StepCreateDataSetRecord(p) ==
    \/ CreateDataSetRecordInsert(p)
    \/ CreateDataSetRecordIncrement(p)
    \/ CreateDataSetRecordUpdateSchema(p)

StepListDataSetRecordsPaginated(p) ==
    \/ ListSelectRecords(p)
    \/ ListCountRecords(p)

-----------------------------------------------------------------------------
(* Spec: overlapping requests of one scope on a prompt and its copies *)

Init ==
    /\ InitTables
    /\ BothSlots
    /\ before = NoSnapshot
    /\ observe = Observe(FALSE, FALSE, FALSE)

Next ==
    \E p \in Procs :
        \/ HeadsBelow(MaxPrompts) /\ CreatePrompt(p, HomeScope, PromptInput(NameX, SlugX, "v1"))
        \/ StepCreatePrompt(p)
        \/ \E id \in FirstPrompt : UpdatePrompt(p, id, BodyOnly)
        \/ StepUpdatePrompt(p)
        \/ \E id \in FirstPrompt, v \in Versions : SetRouterVersion(p, id, v)
        \/ StepSetRouterVersion(p)
        \/ HeadsBelow(MaxPrompts) /\ \E id \in FirstPrompt : CopyPrompt(p, id)
        \/ StepCopyPrompt(p)
        \/ \E id \in FirstPrompt : RenamePrompt(p, id, NameY)
        \/ StepRenamePrompt(p)
        \/ \E id \in FirstPrompt : GetActivePromptVersion(p, id)
        \/ GetActivePromptVersionFind(p)

Spec == Init /\ [][Next]_vars

-----------------------------------------------------------------------------
(* SpecSeq: one client, one request at a time, on one prompt *)

InitSeq ==
    /\ InitTables
    /\ calls = [p \in Procs |-> IF p = "a" THEN Idle ELSE OutOfService]
    /\ before = NoSnapshot
    /\ observe = Observe(FALSE, FALSE, TRUE)

NextSeq ==
    \E p \in Procs :
        \/ HeadsBelow(MaxPrompts) /\ CreatePrompt(p, HomeScope, PromptInput(NameX, SlugX, "v1"))
        \/ StepCreatePrompt(p)
        \/ \E id \in FirstPrompt, input \in UpdateInputs :
               UpdatePrompt(p, id, input)
        \/ StepUpdatePrompt(p)
        \/ \E id \in FirstPrompt, v \in Versions : SetRouterVersion(p, id, v)
        \/ StepSetRouterVersion(p)
        \/ \E id \in FirstPrompt, name \in {NameLowerX, NameY} :
               RenamePrompt(p, id, name)
        \/ StepRenamePrompt(p)

SpecSeq == InitSeq /\ [][NextSeq]_vars

-----------------------------------------------------------------------------
(* SpecData: one client, one request at a time, on the datasets of a scope, *)
(* with ids of that scope and of another tenant                            *)

InitData ==
    /\ InitTables
    /\ calls = [p \in Procs |-> IF p = "b" THEN Idle ELSE OutOfService]
    /\ before = NoSnapshot
    /\ observe = Observe(FALSE, FALSE, FALSE)

NextData ==
    \E p \in Procs :
        \/ CreateDataSet(p, HomeScope, DataSetInput(NameX))
        \/ StepCreateDataSet(p)
        \/ \E id \in DataSetIds({HomeScope, OtherTenant}),
              variables \in {JaneWithTags, NumericName} :
               CreateDataSetRecord(p, id, variables)
        \/ StepCreateDataSetRecord(p)
        \/ \E id \in DataSetIds({HomeScope, OtherTenant}),
              recordIds \in RecordIdLists :
               DeleteDataSetRecords(p, id, recordIds)
        \/ DeleteDataSetRecordsDecrement(p)

SpecData == InitData /\ [][NextData]_vars

-----------------------------------------------------------------------------
(* SpecRecords: overlapping requests on the records of one dataset *)

InitRecords ==
    /\ InitTables
    /\ BothSlots
    /\ before = NoSnapshot
    /\ observe = Observe(FALSE, FALSE, FALSE)

NextRecords ==
    \E p \in Procs :
        \/ CreateDataSet(p, HomeScope, DataSetInput(NameX))
        \/ StepCreateDataSet(p)
        \/ \E id \in DataSetIds({HomeScope}),
              variables \in {JaneWithTags, NumericName} :
               CreateDataSetRecord(p, id, variables)
        \/ StepCreateDataSetRecord(p)
        \/ \E id \in DataSetIds({HomeScope}), recordIds \in {<<1>>, <<1, 2>>} :
               DeleteDataSetRecords(p, id, recordIds)
        \/ DeleteDataSetRecordsDecrement(p)

SpecRecords == InitRecords /\ [][NextRecords]_vars

-----------------------------------------------------------------------------
(* SpecIso: one client, one request at a time, under three scopes that      *)
(* differ in tenantId only or in projectId only                           *)

InitIso ==
    /\ InitTables
    /\ OneSlot
    /\ before = NoSnapshot
    /\ observe = Observe(FALSE, FALSE, FALSE)

NextIsoPrompts(p) ==
    \/ HeadsBelow(MaxPrompts) /\ \E scope \in AllScopes :
           CreatePrompt(p, scope, PromptInput(NameY, SlugY, "v1"))
    \/ StepCreatePrompt(p)
    \/ \E id \in FirstPromptIn(AllScopes) : UpdatePrompt(p, id, BodyOnly)
    \/ StepUpdatePrompt(p)
    \/ \E id \in FirstPromptIn(AllScopes), v \in 1..2 : SetRouterVersion(p, id, v)
    \/ StepSetRouterVersion(p)
    \/ HeadsBelow(MaxPrompts) /\ \E id \in PromptIds(AllScopes) : CopyPrompt(p, id)
    \/ StepCopyPrompt(p)
    \/ \E id \in PromptIds(AllScopes) : RenamePrompt(p, id, NameX)
    \/ StepRenamePrompt(p)
    \/ \E id \in FirstPromptIn(AllScopes) : DeactivatePrompt(p, id)

NextIsoData(p) ==
    \/ \E scope \in AllScopes : CreateDataSet(p, scope, DataSetInput(NameX))
    \/ StepCreateDataSet(p)
    \/ \E id \in DataSetIds(AllScopes) : DeleteDataSet(p, id)
    \/ \E id \in DataSetIds(AllScopes), variables \in {JaneWithTags, NumericName} :
           CreateDataSetRecord(p, id, variables)
    \/ StepCreateDataSetRecord(p)
    \/ \E id \in DataSetIds(AllScopes), recordIds \in {<<1>>, <<1, 2>>} :
           DeleteDataSetRecords(p, id, recordIds)
    \/ DeleteDataSetRecordsDecrement(p)

NextIso == NextIsoPrompts("a") \/ NextIsoData("b")

SpecIso == InitIso /\ [][NextIso]_vars

-----------------------------------------------------------------------------
(* SpecFault: one client, one request at a time; any statement may fail.    *)
(* Results and the tables at the start of each call are recorded.          *)

InitFault ==
    /\ InitTables
    /\ OneSlot
    /\ before = tables
    /\ observe = Observe(TRUE, TRUE, FALSE)

NextFaultPrompts(p) ==
    \/ HeadsBelow(MaxPrompts) /\ CreatePrompt(p, HomeScope, PromptInput(NameX, SlugX, "v1"))
    \/ StepCreatePrompt(p)
    \/ \E id \in FirstPrompt : UpdatePrompt(p, id, BodyOnly)
    \/ StepUpdatePrompt(p)
    \/ HeadsBelow(MaxPrompts) /\ \E id \in FirstPrompt : CopyPrompt(p, id)
    \/ StepCopyPrompt(p)
    \/ StatementFails(p)

NextFaultData(p) ==
    \/ CreateDataSet(p, HomeScope, DataSetInput(NameX))
    \/ StepCreateDataSet(p)
    \/ \E id \in DataSetIds({HomeScope}) : CreateDataSetRecord(p, id, JaneWithTags)
    \/ StepCreateDataSetRecord(p)
    \/ \E id \in DataSetIds({HomeScope}) : DeleteDataSetRecords(p, id, <<1, 2>>)
    \/ DeleteDataSetRecordsDecrement(p)
    \/ StatementFails(p)

NextFault == NextFaultPrompts("a") \/ NextFaultData("b")

SpecFault == InitFault /\ [][NextFault]_vars

-----------------------------------------------------------------------------
(* SpecActive: one client, one request at a time, results recorded: the      *)
(* router and the reads through it, with ids of the scope and of others     *)

ActiveIds ==
    {EntityId(1, HomeScope), EntityId(2, HomeScope), EntityId(1, OtherTenant),
     EntityId(1, OtherProject)}

InitActive ==
    /\ InitTables
    /\ calls = [p \in Procs |-> IF p = "a" THEN Idle ELSE OutOfService]
    /\ before = NoSnapshot
    /\ observe = Observe(TRUE, FALSE, FALSE)

NextActive ==
    \E p \in Procs :
        \/ HeadsBelow(MaxPrompts)
               /\ CreatePrompt(p, HomeScope, PromptInput(NameX, SlugX, "v1"))
        \/ StepCreatePrompt(p)
        \/ \E id \in FirstPrompt : UpdatePrompt(p, id, BodyOnly)
        \/ StepUpdatePrompt(p)
        \/ \E id \in ActiveIds, v \in Versions : SetRouterVersion(p, id, v)
        \/ StepSetRouterVersion(p)
        \/ HeadsBelow(MaxPrompts) /\ \E id \in FirstPrompt : CopyPrompt(p, id)
        \/ StepCopyPrompt(p)
        \/ \E id \in ActiveIds : GetActivePromptVersion(p, id)
        \/ GetActivePromptVersionFind(p)
        \/ \E id \in ActiveIds : GetActiveRouterVersion(p, id)
        \/ \E id \in ActiveIds : GetPromptById(p, id)
        \/ GetPromptByIdFind(p)
        \/ RawDeletePromptRouters(1)
        \/ RawDeletePromptVersions(1)

SpecActive == InitActive /\ [][NextActive]_vars

-----------------------------------------------------------------------------
(* SpecRename: one client, one request at a time, results recorded: prompts *)
(* of two scopes are created and renamed                                    *)

RenameScopes == {HomeScope, OtherTenant}
RenameIds == {EntityId(i, s) : i \in 1..MaxHeads, s \in RenameScopes}
RenameNames == {NameX, NameLowerX, NameY}

InitRename ==
    /\ InitTables
    /\ calls = [p \in Procs |-> IF p = "a" THEN Idle ELSE OutOfService]
    /\ before = NoSnapshot
    /\ observe = Observe(TRUE, FALSE, FALSE)

NextRename ==
    \E p \in Procs :
        \/ \E scope \in RenameScopes,
              input \in {PromptInput(NameX, SlugX, "v1"),
                         PromptInput(NameLowerX, SlugY, "v1")} :
               CreatePrompt(p, scope, input)
        \/ StepCreatePrompt(p)
        \/ \E id \in RenameIds, name \in RenameNames : RenamePrompt(p, id, name)
        \/ StepRenamePrompt(p)

SpecRename == InitRename /\ [][NextRename]_vars

-----------------------------------------------------------------------------
(* SpecCopy: one client, one request at a time: prompts of two scopes are   *)
(* created, copied, updated, rolled back and renamed                        *)

CopyIds == {EntityId(1, HomeScope), EntityId(2, HomeScope), EntityId(1, OtherTenant)}
HeldElsewhere == PromptInput(CopyName(NameX, 1), CopySlug(SlugX, 1), "v1")

InitCopy ==
    /\ InitTables
    /\ calls = [p \in Procs |-> IF p = "a" THEN Idle ELSE OutOfService]
    /\ before = NoSnapshot
    /\ observe = Observe(FALSE, FALSE, FALSE)

NextCopy ==
    \E p \in Procs :
        \/ CreatePrompt(p, HomeScope, PromptInput(NameX, SlugX, "v1"))
        \/ CreatePrompt(p, OtherTenant, HeldElsewhere)
        \/ StepCreatePrompt(p)
        \/ \E id \in CopyIds : CopyPrompt(p, id)
        \/ StepCopyPrompt(p)
        \/ \E id \in CopyIds : UpdatePrompt(p, id, BodyOnly)
        \/ StepUpdatePrompt(p)
        \/ \E id \in FirstPrompt, v \in 1..2 : SetRouterVersion(p, id, v)
        \/ StepSetRouterVersion(p)
        \/ \E id \in CopyIds : RenamePrompt(p, id, NameY)
        \/ StepRenamePrompt(p)

SpecCopy == InitCopy /\ [][NextCopy]_vars

-----------------------------------------------------------------------------
(* SpecRace: two clients copy one prompt at the same time; results recorded *)

InitRace ==
    /\ InitTables
    /\ BothSlots
    /\ before = NoSnapshot
    /\ observe = Observe(TRUE, FALSE, FALSE)

NextRace ==
    \E p \in Procs :
        \/ HeadsBelow(MaxPrompts) /\ CreatePrompt(p, HomeScope, PromptInput(NameX, SlugX, "v1"))
        \/ StepCreatePrompt(p)
        \/ \E id \in FirstPrompt : CopyPrompt(p, id)
        \/ StepCopyPrompt(p)

SpecRace == InitRace /\ [][NextRace]_vars

-----------------------------------------------------------------------------
(* SpecNotFound: one client, one request at a time, results recorded: the   *)
(* rows are of one scope, the ids of the requests of three                  *)

InitNotFound ==
    /\ InitTables
    /\ OneSlot
    /\ before = NoSnapshot
    /\ observe = Observe(TRUE, FALSE, FALSE)

NextNotFoundPrompts(p) ==
    \/ HeadsBelow(MaxPrompts) /\ CreatePrompt(p, HomeScope, PromptInput(NameX, SlugX, "v1"))
    \/ StepCreatePrompt(p)
    \/ \E id \in PromptIds(AllScopes) : UpdatePrompt(p, id, BodyOnly)
    \/ StepUpdatePrompt(p)
    \/ \E id \in PromptIds(AllScopes) : RenamePrompt(p, id, NameY)
    \/ StepRenamePrompt(p)
    \/ HeadsBelow(MaxPrompts) /\ \E id \in PromptIds(AllScopes) : CopyPrompt(p, id)
    \/ StepCopyPrompt(p)

NextNotFoundData(p) ==
    \/ CreateDataSet(p, HomeScope, DataSetInput(NameX))
    \/ StepCreateDataSet(p)
    \/ \E id \in DataSetIds(AllScopes) : CreateDataSetRecord(p, id, JaneWithTags)
    \/ StepCreateDataSetRecord(p)

NextNotFound == NextNotFoundPrompts("a") \/ NextNotFoundData("b")

SpecNotFound == InitNotFound /\ [][NextNotFound]_vars

-----------------------------------------------------------------------------
(* SpecSchema: one client, one request at a time, adds records to the        *)
(* datasets of a scope                                                     *)

InitSchema ==
    /\ InitTables
    /\ calls = [p \in Procs |-> IF p = "b" THEN Idle ELSE OutOfService]
    /\ before = NoSnapshot
    /\ observe = Observe(FALSE, FALSE, FALSE)

NextSchema ==
    \E p \in Procs :
        \/ CreateDataSet(p, HomeScope, DataSetInput(NameX))
        \/ StepCreateDataSet(p)
        \/ \E id \in DataSetIds({HomeScope}),
              variables \in {JaneWithTags, NumericName, ConstructorField} :
               CreateDataSetRecord(p, id, variables)
        \/ StepCreateDataSetRecord(p)

SpecSchema == InitSchema /\ [][NextSchema]_vars

-----------------------------------------------------------------------------
(* SpecFlatten: collectFields applied to every payload tree of a bounded    *)
(* set, at the top (empty prefix) and below a key                          *)

\* depth of nesting of objects in the payloads
MaxDepth == 2

Keys == {"a", "b"}

Scalars == {Leaf("null"), Leaf("boolean"), Leaf("number"), Leaf("string")}

Arrays == {Arr(<<>>), Arr(<<Leaf("string")>>), Arr(<<Obj([a |-> Leaf("number")])>>)}

\* the objects whose values are taken from children, the empty object included
ObjectsOver(children) ==
    {Obj(f) : f \in UNION {[K -> children] : K \in SUBSET Keys}}

RECURSIVE Trees(_)
Trees(depth) ==
    IF depth = 0 THEN Scalars \cup Arrays \cup {Obj(<<>>)}
    ELSE Trees(depth - 1) \cup ObjectsOver(Trees(depth - 1))

Prefixes == {"", "p"}

\* the call collectFields(value, prefix) on slot p
CollectFieldsCall(p) ==
    /\ At(p, "collectFields", "call")
    /\ SetCall(p, [calls[p] EXCEPT
                       !.pc = "done",
                       !.fields = collectFields(calls[p].value, calls[p].prefix)])
    /\ UNCHANGED <<dataSets, dataSetRecords, before>>
    /\ UNCHANGED_PROMPTS

InitFlatten ==
    /\ InitTables
    /\ before = NoSnapshot
    /\ observe = Observe(FALSE, FALSE, FALSE)
    /\ \E value \in Trees(MaxDepth), prefix \in Prefixes :
           calls = [p \in Procs |->
                       IF p = "b"
                       THEN [op |-> "collectFields", pc |-> "call",
                             id |-> EntityId(0, HomeScope), value |-> value,
                             prefix |-> prefix, fields |-> EmptyMap]
                       ELSE OutOfService]

NextFlatten == \E p \in Procs : CollectFieldsCall(p)

SpecFlatten == InitFlatten /\ [][NextFlatten]_vars

-----------------------------------------------------------------------------
(* SpecDelete: one client, one request at a time, creating and soft-deleting *)
(* datasets and records of its own scope and of another tenant, with ids of *)
(* both scopes; the result of every call is kept                            *)

DeleteScopes == {HomeScope, OtherTenant}

InitDelete ==
    /\ InitTables
    /\ calls = [p \in Procs |-> IF p = "b" THEN Idle ELSE OutOfService]
    /\ before = NoSnapshot
    /\ observe = Observe(TRUE, FALSE, FALSE)

NextDelete ==
    \E p \in Procs :
        \/ \E scope \in DeleteScopes :
               CreateDataSet(p, scope, DataSetInput(NameX))
        \/ StepCreateDataSet(p)
        \/ \E id \in DataSetIds(DeleteScopes) :
               CreateDataSetRecord(p, id, JaneWithTags)
        \/ StepCreateDataSetRecord(p)
        \/ \E id \in DataSetIds(DeleteScopes), recordIds \in RecordIdLists :
               DeleteDataSetRecords(p, id, recordIds)
        \/ DeleteDataSetRecordsDecrement(p)
        \/ \E id \in DataSetIds(DeleteScopes) : DeleteDataSet(p, id)

SpecDelete == InitDelete /\ [][NextDelete]_vars

-----------------------------------------------------------------------------
(* SpecGone: one client, one request at a time, on the datasets of its      *)
(* scope: it creates datasets and records, deletes datasets and then goes   *)
(* on to create, delete and list records under the same ids                 *)

FirstPage == [page |-> 1, pageSize |-> 2]

InitGone ==
    /\ InitTables
    /\ calls = [p \in Procs |-> IF p = "b" THEN Idle ELSE OutOfService]
    /\ before = NoSnapshot
    /\ observe = Observe(TRUE, FALSE, FALSE)

NextGone ==
    \E p \in Procs :
        \/ CreateDataSet(p, HomeScope, DataSetInput(NameX))
        \/ StepCreateDataSet(p)
        \/ \E id \in DataSetIds({HomeScope}) :
               \/ CreateDataSetRecord(p, id, JaneWithTags)
               \/ DeleteDataSet(p, id)
               \/ ListDataSetRecordsPaginated(p, id, FirstPage)
               \/ \E recordIds \in {<<1>>, <<1, 2>>} :
                      DeleteDataSetRecords(p, id, recordIds)
        \/ StepCreateDataSetRecord(p)
        \/ DeleteDataSetRecordsDecrement(p)
        \/ StepListDataSetRecordsPaginated(p)

SpecGone == InitGone /\ [][NextGone]_vars

-----------------------------------------------------------------------------
(* SpecList: one client, one request at a time: it creates datasets in its  *)
(* scope and in another tenant, adds and deletes records and lists pages    *)
(* with ids of both scopes                                                  *)

MaxPage == 3
MaxPageSize == 2

Paginations ==
    {[page |-> page, pageSize |-> pageSize] :
        page \in 1..MaxPage, pageSize \in 1..MaxPageSize}

InitList ==
    /\ InitTables
    /\ calls = [p \in Procs |-> IF p = "b" THEN Idle ELSE OutOfService]
    /\ before = NoSnapshot
    /\ observe = Observe(TRUE, FALSE, FALSE)

NextList ==
    \E p \in Procs :
        \/ \E scope \in DeleteScopes :
               CreateDataSet(p, scope, DataSetInput(NameX))
        \/ StepCreateDataSet(p)
        \/ \E id \in DataSetIds(DeleteScopes) :
               \/ CreateDataSetRecord(p, id, JaneWithTags)
               \/ \E recordIds \in {<<1>>, <<2>>} :
                      DeleteDataSetRecords(p, id, recordIds)
               \/ \E pagination \in Paginations :
                      ListDataSetRecordsPaginated(p, id, pagination)
        \/ StepCreateDataSetRecord(p)
        \/ DeleteDataSetRecordsDecrement(p)
        \/ StepListDataSetRecordsPaginated(p)

SpecList == InitList /\ [][NextList]_vars

-----------------------------------------------------------------------------
(* SpecCount: two clients on the records of the datasets of one scope: they *)
(* add records, delete records and list a page while the other is at work   *)

InitCount ==
    /\ InitTables
    /\ BothSlots
    /\ before = NoSnapshot
    /\ observe = Observe(TRUE, FALSE, FALSE)

NextCount ==
    \E p \in Procs :
        \/ CreateDataSet(p, HomeScope, DataSetInput(NameX))
        \/ StepCreateDataSet(p)
        \/ \E id \in DataSetIds({HomeScope}) :
               \/ CreateDataSetRecord(p, id, JaneWithTags)
               \/ DeleteDataSetRecords(p, id, <<1>>)
               \/ ListDataSetRecordsPaginated(p, id, FirstPage)
        \/ StepCreateDataSetRecord(p)
        \/ DeleteDataSetRecordsDecrement(p)
        \/ StepListDataSetRecordsPaginated(p)

SpecCount == InitCount /\ [][NextCount]_vars

-----------------------------------------------------------------------------
(* SpecPair: two clients in one scope, each at work on a parent of its own: *)
(* client "a" on prompt 1 or dataset 1, client "b" on prompt 2 or dataset 2, *)
(* their calls overlapping; a run works on prompts or on datasets            *)

ParentFor(p) == EntityId(IF p = "a" THEN 1 ELSE 2, HomeScope)

PromptRun == dataSets = {} /\ \A q \in Procs : calls[q].op # "createDataSet"
DataRun == prompts = {}

InitPair ==
    /\ InitTables
    /\ BothSlots
    /\ before = NoSnapshot
    /\ observe = Observe(FALSE, FALSE, FALSE)

NextPairPrompts(p) ==
    \/ /\ PromptRun
       /\ HeadsBelow(MaxPrompts)
       /\ \E input \in {PromptInput(NameX, SlugX, "v1"),
                        PromptInput(NameY, SlugY, "v1")} :
              CreatePrompt(p, HomeScope, input)
    \/ StepCreatePrompt(p)
    \/ UpdatePrompt(p, ParentFor(p), BodyOnly)
    \/ StepUpdatePrompt(p)
    \/ \E v \in 1..2 : SetRouterVersion(p, ParentFor(p), v)
    \/ StepSetRouterVersion(p)
    \/ RenamePrompt(p, ParentFor(p), NameXY)
    \/ StepRenamePrompt(p)

NextPairData(p) ==
    \/ DataRun /\ CreateDataSet(p, HomeScope, DataSetInput(NameX))
    \/ StepCreateDataSet(p)
    \/ \E variables \in {JaneWithTags, NumericName} :
           CreateDataSetRecord(p, ParentFor(p), variables)
    \/ StepCreateDataSetRecord(p)
    \/ \E recordIds \in {<<1>>, <<2>>, <<1, 2>>} :
           DeleteDataSetRecords(p, ParentFor(p), recordIds)
    \/ DeleteDataSetRecordsDecrement(p)

NextPair == \E p \in Procs : NextPairPrompts(p) \/ NextPairData(p)

SpecPair == InitPair /\ [][NextPair]_vars

-----------------------------------------------------------------------------
(* SpecIncrement: repository.incrementRecordCountBy called on a table of two *)
(* dataset rows of different tenants that were created with given counters   *)

MaxCount == 4
MaxAmount == 3

\* repository.create with countOfRecords given, as the repository tests do
CountedRow(id, scope, countOfRecords) ==
    [id |-> id, tenantId |-> scope.tenantId, projectId |-> scope.projectId,
     name |-> NameX, slug |-> SlugX, isDeleted |-> FALSE,
     countOfRecords |-> countOfRecords, schema |-> DefaultSchemaText]

\* the call repository.incrementRecordCountBy(entityId, amount) on slot p
IncrementRecordCountByCall(p) ==
    /\ At(p, "incrementRecordCountBy", "call")
    /\ dataSets' = incrementRecordCountBy(calls[p].id, calls[p].amount)
    /\ SetCall(p, [calls[p] EXCEPT !.pc = "done"])
    /\ UNCHANGED <<dataSetRecords, before>>
    /\ UNCHANGED_PROMPTS

InitIncrement ==
    /\ prompts = {}
    /\ promptVersions = {}
    /\ promptRouters = {}
    /\ dataSetRecords = {}
    /\ completedUpdates = [i \in 1..MaxHeads |-> 0]
    /\ before = NoSnapshot
    /\ observe = Observe(FALSE, FALSE, FALSE)
    /\ \E c1 \in 0..MaxCount, c2 \in 0..MaxCount :
           dataSets = {CountedRow(1, HomeScope, c1),
                       CountedRow(2, OtherTenant, c2)}
    /\ \E id \in DataSetIds(DeleteScopes), amount \in (0 - MaxAmount)..MaxAmount :
           calls = [p \in Procs |->
                       IF p = "b"
                       THEN [op |-> "incrementRecordCountBy", pc |-> "call",
                             id |-> id, amount |-> amount]
                       ELSE OutOfService]

NextIncrement == \E p \in Procs : IncrementRecordCountByCall(p)

SpecIncrement == InitIncrement /\ [][NextIncrement]_vars

-----------------------------------------------------------------------------
(* SpecCopyName: one client, one request at a time, in one scope: prompts   *)
(* are created with a name and a slug of their own choice, renamed and      *)
(* copied                                                                   *)

\* a prompt named like the first copy of "X", under a slug of its own
NamedLikeCopy == PromptInput(CopyName(NameX, 1), SlugY, "v1")

InitCopyName ==
    /\ InitTables
    /\ calls = [p \in Procs |-> IF p = "a" THEN Idle ELSE OutOfService]
    /\ before = NoSnapshot
    /\ observe = Observe(TRUE, FALSE, FALSE)

NextCopyName ==
    \E p \in Procs :
        \/ \E input \in {PromptInput(NameX, SlugX, "v1"), NamedLikeCopy} :
               CreatePrompt(p, HomeScope, input)
        \/ StepCreatePrompt(p)
        \/ \E id \in PromptIds({HomeScope}) : CopyPrompt(p, id)
        \/ StepCopyPrompt(p)
        \/ \E id \in PromptIds({HomeScope}) : RenamePrompt(p, id, NameY)
        \/ StepRenamePrompt(p)

SpecCopyName == InitCopyName /\ [][NextCopyName]_vars

-----------------------------------------------------------------------------
(* SpecUpdates: two clients that create prompts in one scope and, once a     *)
(* createPrompt has returned, update the first prompt, their updatePrompt    *)
(* calls overlapping; no other operation is invoked                          *)

InitUpdates ==
    /\ InitTables
    /\ BothSlots
    /\ before = NoSnapshot
    /\ observe = Observe(FALSE, FALSE, FALSE)

NextUpdates ==
    \E p \in Procs :
        \/ /\ HeadsBelow(MaxPrompts)
           /\ CreatePrompt(p, HomeScope, PromptInput(NameX, SlugX, "v1"))
        \/ StepCreatePrompt(p)
        \/ /\ \A q \in Procs : calls[q].op # "createPrompt"
           /\ \E id \in FirstPrompt, input \in {BodyOnly, NameOnly} :
                  UpdatePrompt(p, id, input)
        \/ StepUpdatePrompt(p)

SpecUpdates == InitUpdates /\ [][NextUpdates]_vars

-----------------------------------------------------------------------------
(* SpecDeleteRace: two clients on the datasets of one scope; a               *)
(* createDataSetRecord call may overlap a deleteDataSet of the same dataset  *)

InitDeleteRace ==
    /\ InitTables
    /\ BothSlots
    /\ before = NoSnapshot
    /\ observe = Observe(FALSE, FALSE, FALSE)

NextDeleteRace ==
    \E p \in Procs :
        \/ CreateDataSet(p, HomeScope, DataSetInput(NameX))
        \/ StepCreateDataSet(p)
        \/ \E id \in DataSetIds({HomeScope}),
              variables \in {JaneWithTags, NumericName} :
               CreateDataSetRecord(p, id, variables)
        \/ StepCreateDataSetRecord(p)
        \/ \E id \in DataSetIds({HomeScope}) : DeleteDataSet(p, id)

SpecDeleteRace == InitDeleteRace /\ [][NextDeleteRace]_vars

-----------------------------------------------------------------------------
(* SpecProbe: one client, so that no other writer runs during a call; it     *)
(* creates prompts and datasets in two scopes and copies prompts.  Every     *)
(* awaited repository call of a started copyPrompt or createDataSet returns, *)
(* so the continuation that follows it is run: weak fairness on their steps  *)

InitProbe ==
    /\ InitTables
    /\ calls = [p \in Procs |-> IF p = "a" THEN Idle ELSE OutOfService]
    /\ before = NoSnapshot
    /\ observe = Observe(FALSE, FALSE, FALSE)

NextProbe ==
    \E p \in Procs :
        \/ \E scope \in {HomeScope, OtherTenant},
              input \in {PromptInput(NameX, SlugX, "v1"), HeldElsewhere} :
               CreatePrompt(p, scope, input)
        \/ StepCreatePrompt(p)
        \/ \E id \in CopyIds : CopyPrompt(p, id)
        \/ StepCopyPrompt(p)
        \/ \E scope \in {HomeScope, OtherTenant} :
               CreateDataSet(p, scope, DataSetInput(NameX))
        \/ StepCreateDataSet(p)

FairProbe ==
    \A p \in Procs : /\ WF_vars(StepCreatePrompt(p))
                     /\ WF_vars(StepCopyPrompt(p))
                     /\ WF_vars(StepCreateDataSet(p))

SpecProbe == InitProbe /\ [][NextProbe]_vars /\ FairProbe

-----------------------------------------------------------------------------
(* Properties *)

HeadId(h) == EntityId(h.id, RowScope(h))

\* the ledger of head h holds exactly the versions 1..latestVersion, once each
LedgerExact(h) ==
    /\ \A e \in findPromptVersions(HeadId(h)) : e.version \in 1..h.latestVersion
    /\ \A v \in 1..h.latestVersion :
           Cardinality({e \in findPromptVersions(HeadId(h)) : e.version = v}) = 1

UpdateInFlight(p) == calls[p].op = "updatePrompt" /\ calls[p].pc # "done"

\* the live records of dataset d, recounted from the record table
LiveRecords(d) ==
    {r \in dataSetRecords : r.dataSetId = d.id /\ r.isDeleted = FALSE}

\* C1: under any interleaving of two or more updatePrompt calls on one prompt,
\* no two calls compute the same newVersion, and once the calls are over the
\* ledger of every head holds exactly the versions 1..latestVersion, without
\* gap or duplicate.
C1_VersionAllocation ==
    /\ \A p, q \in Procs :
           (/\ p # q
            /\ UpdateInFlight(p)
            /\ UpdateInFlight(q)
            /\ calls[p].id = calls[q].id)
               => calls[p].newVersion # calls[q].newVersion
    /\ Quiescent => \A h \in prompts : LedgerExact(h)

\* C2: after createPrompt and n updatePrompt calls that do not overlap, with
\* setRouterVersion and renamePrompt calls between them, latestVersion = n + 1
\* and the ledger holds exactly one entry for each version 1..n+1.
C2_SequentialVersions ==
    Quiescent =>
        \A h \in prompts :
            /\ h.latestVersion = completedUpdates[h.id] + 1
            /\ LedgerExact(h)

C2_Witness ==
    /\ Quiescent
    /\ \E h \in prompts :
           /\ h.latestVersion = MaxVersion
           /\ completedUpdates[h.id] = MaxVersion - 1
           /\ h.slug = SlugY
           /\ findPromptRouter(HeadId(h)).version = 1

\* C3: in every reachable state of any interleaving of createPrompt,
\* updatePrompt, setRouterVersion, copyPrompt and renamePrompt, the version a
\* router row names has a ledger entry of the same prompt and scope, and a
\* getActivePromptVersion call that has read a router row finds its entry.
C3_RouterIntegrity ==
    /\ \A r \in promptRouters :
           \E e \in promptVersions :
               /\ e.promptId = r.promptId
               /\ RowScope(e) = RowScope(r)
               /\ e.version = r.version
    /\ \A p \in Procs :
           At(p, "getActivePromptVersion", "findPromptVersion")
               => Found(findPromptVersion(calls[p].id, calls[p].router.version))

C3_Witness ==
    /\ Cardinality(prompts) = 2
    /\ \E h \in prompts :
           /\ h.slug = SlugY
           /\ h.latestVersion = MaxVersion
           /\ findPromptRouter(HeadId(h)).version = 2
           /\ \E p \in Procs :
                  /\ At(p, "getActivePromptVersion", "findPromptVersion")
                  /\ calls[p].id = HeadId(h)
                  /\ calls[p].router.version = 1

\* C4: after any sequence of completed createDataSetRecord and
\* deleteDataSetRecords calls on a dataset, countOfRecords equals the number of
\* its records with isDeleted = false.
C4_CounterExact ==
    Quiescent =>
        \A d \in dataSets : d.countOfRecords = Cardinality(LiveRecords(d))

C4_Witness ==
    /\ Quiescent
    /\ \E d \in dataSets :
           /\ d.countOfRecords = 1
           /\ Cardinality(LiveRecords(d)) = 1
           /\ \E r \in dataSetRecords : r.dataSetId = d.id /\ r.isDeleted
    /\ \E d \in dataSets : d.countOfRecords = 0 /\ d.schema = DefaultSchemaText

\* C5: the three effects of createDataSetRecord are one unit: in every
\* reachable state, the states between its statements included, countOfRecords
\* equals the number of live records and the schema has a path for every field
\* of every inserted record.
C5_RecordCreationAtomic ==
    \A d \in dataSets :
        /\ d.countOfRecords = Cardinality(LiveRecords(d))
        /\ \A r \in dataSetRecords :
               r.dataSetId = d.id
                   => DOMAIN collectFields(r.variables, "")
                          \subseteq DOMAIN parseSchema(d.schema)

\* C6: the schema of a dataset only widens: in every step, overlapping
\* createDataSetRecord calls included, every path of the schema stays, with the
\* type it had or with "mixed".
C6_SchemaWidens ==
    [][\A d \in dataSets : \A e \in dataSets' :
           e.id = d.id =>
               \A path \in DOMAIN parseSchema(d.schema) :
                   /\ path \in DOMAIN parseSchema(e.schema)
                   /\ parseSchema(e.schema)[path].type
                          \in {parseSchema(d.schema)[path].type, "mixed"}]_vars

\* the rows of scope t, table by table
RowsOf(t) ==
    <<{r \in prompts : RowScope(r) = t},
      {r \in promptVersions : RowScope(r) = t},
      {r \in promptRouters : RowScope(r) = t},
      {r \in dataSets : RowScope(r) = t},
      {r \in dataSetRecords : RowScope(r) = t}>>

InScope(row, s) == Found(row) => RowScope(row) = s

\* every read made under scope s returns rows of s only, and the uniqueness
\* check of a head of s gives the same answer without the rows of other scopes
ReadsScoped ==
    \A s \in AllScopes :
        /\ \A i \in 1..MaxPrompts :
               /\ InScope(findPromptById(EntityId(i, s)), s)
               /\ InScope(findPromptRouter(EntityId(i, s)), s)
               /\ \A v \in Versions : InScope(findPromptVersion(EntityId(i, s), v), s)
               /\ \A e \in findPromptVersions(EntityId(i, s)) : RowScope(e) = s
        /\ \A h \in prompts :
               /\ InScope(findPromptBySlug(s, h.slug), s)
               /\ LET row == [h EXCEPT !.id = 0, !.tenantId = s.tenantId,
                                       !.projectId = s.projectId]
                  IN  PromptsUniqueOk(row, prompts)
                          = PromptsUniqueOk(row, {r \in prompts : RowScope(r) = s})
        /\ \A i \in 1..MaxDataSets :
               /\ InScope(findById(EntityId(i, s)), s)
               /\ \A r \in listByDataSet(EntityId(i, s)) : RowScope(r) = s
               /\ \A r \in softDeleteManyMatches(EntityId(i, s), <<1, 2, 3>>) :
                      RowScope(r) = s
        /\ \A d \in dataSets : InScope(findBySlug(s, d.slug), s)

\* a step changes rows of scope t only when the call that took it runs under t
ForeignRowsUnchanged ==
    \A t \in AllScopes :
        RowsOf(t)' # RowsOf(t)
            => \E p \in Procs :
                   calls'[p].pc # "off" /\ getProjectId(calls'[p].id) = t

\* C7: tenant isolation: for scopes that differ in tenantId only or in
\* projectId only, every read under one scope returns rows of that scope only
\* (so results and slug-collision checks do not depend on the rows of the other
\* scope), and every step of a call under one scope leaves the rows of the
\* other scopes unchanged.
C7_TenantIsolation == [] ReadsScoped /\ [][ForeignRowsUnchanged]_vars

C7_Witness ==
    /\ calls["a"].pc = "done"
    /\ getProjectId(calls["a"].id) = OtherProject
    /\ \E h1 \in prompts, h2 \in prompts :
           /\ RowScope(h1) = HomeScope
           /\ RowScope(h2) = OtherTenant
           /\ h1.slug = SlugX
           /\ h2.slug = SlugX
           /\ h1.latestVersion = 2
           /\ h2.latestVersion = 1
           /\ h1.isActive = FALSE

\* C8: latestVersion of a head never decreases: in every step, the steps of
\* overlapping updatePrompt calls on one prompt included, its value after the
\* step is at least its value before.
C8_LatestVersionMonotone ==
    [][\A h \in prompts : \A g \in prompts' :
           g.id = h.id => g.latestVersion >= h.latestVersion]_vars

C10_AllOrNothing ==
    \A p \in Procs :
        (calls[p].pc = "done" /\ ~ calls[p].result.ok) => tables = before

\* the router rows and ledger entries of a prompt, read off the tables
RoutersOf(promptId) ==
    {r \in promptRouters : r.promptId = promptId.id /\ RowScope(r) = getProjectId(promptId)}

EntriesOf(promptId, version) ==
    {e \in promptVersions : /\ e.promptId = promptId.id
                            /\ RowScope(e) = getProjectId(promptId)
                            /\ e.version = version}

HeadsOf(promptId) ==
    {h \in prompts : h.id = promptId.id /\ RowScope(h) = getProjectId(promptId)}

\* slot p takes the last step of a call of op
Returns(p, op) ==
    /\ calls[p].pc \notin {"done", "off"}
    /\ calls'[p].pc = "done"
    /\ calls'[p].op = op

\* a getActivePromptVersion call returns the entry the router names, or null
ActiveVersionRead ==
    \A p \in Procs :
        Returns(p, "getActivePromptVersion") =>
            LET id == calls'[p].id
                value == calls'[p].result.value
            IN  IF RoutersOf(id) = {} THEN value.id = 0
                ELSE \E r \in RoutersOf(id) :
                         IF EntriesOf(id, r.version) = {} THEN value.id = 0
                         ELSE \E e \in EntriesOf(id, r.version) :
                                  /\ value.id = e.id
                                  /\ value.version = r.version
                                  /\ value.body = e.body

\* getActiveRouterVersion returns the router's version, or null
RouterVersionRead ==
    \A p \in Procs : \A id \in ActiveIds :
        GetActiveRouterVersion(p, id) =>
            IF RoutersOf(id) = {} THEN calls'[p].result.value.version = 0
            ELSE \E r \in RoutersOf(id) : calls'[p].result.value.version = r.version

\* getPromptById returns the head's latestVersion and the entry at that version
HeadRead ==
    \A p \in Procs :
        Returns(p, "getPromptById") =>
            LET id == calls'[p].id
                value == calls'[p].result.value
            IN  \E h \in HeadsOf(id) :
                    /\ value.latestVersion = h.latestVersion
                    /\ IF EntriesOf(id, h.latestVersion) = {}
                       THEN value.currentVersion.version = 0
                       ELSE \E e \in EntriesOf(id, h.latestVersion) :
                                /\ value.currentVersion.version = h.latestVersion
                                /\ value.currentVersion.body = e.body

\* a successful setRouterVersion leaves the router at the requested version
\* and the heads as they were
RouterSet ==
    \A p \in Procs :
        (Returns(p, "setRouterVersion") /\ calls'[p].result.ok) =>
            /\ \A r \in RoutersOf(calls[p].id)' : r.version = calls[p].version
            /\ RoutersOf(calls[p].id)' # {}
            /\ prompts' = prompts

\* between calls the head's latestVersion is the newest version of its ledger
LatestIsNewest ==
    Quiescent =>
        \A h \in prompts : \A e \in findPromptVersions(HeadId(h)) :
            e.version <= h.latestVersion

SetRouterFrame ==
    \A p \in Procs :
        /\ \A id \in ActiveIds, v \in Versions :
               SetRouterVersion(p, id, v) => tables' = tables
        /\ (/\ calls[p].op = "setRouterVersion"
            /\ calls[p].pc \notin {"done", "off"}
            /\ calls'[p] # calls[p])
               => /\ prompts' = prompts
                  /\ promptVersions' = promptVersions
                  /\ dataSets' = dataSets
                  /\ dataSetRecords' = dataSetRecords
                  /\ promptRouters' \ RoutersOf(calls[p].id)'
                         = promptRouters \ RoutersOf(calls[p].id)
                  /\ calls[p].pc = "findPromptRouter" => promptRouters' = promptRouters
                  /\ (calls'[p].pc = "done" /\ calls'[p].result.ok)
                         => \E r \in promptRouters' :
                                /\ RoutersOf(calls[p].id)' = {r}
                                /\ r.version = calls[p].version
                                /\ \A o \in RoutersOf(calls[p].id) : o.id = r.id

\* C12: a successful setRouterVersion(p, v) changes only the router of p: its
\* version becomes v, or a router at v is created when there is none; the
\* heads (latestVersion and every other field), the ledger entries and the
\* routers of other prompts are unchanged.
C12_SetRouterFrame == [][SetRouterFrame]_vars

\* the router of prompt 1 was deleted and created again by setRouterVersion at
\* version 2 of 3, after it had been set by the calls before; the copy's
\* router stays at 1
C12_Witness ==
    /\ calls["a"].op = "setRouterVersion"
    /\ calls["a"].pc = "done"
    /\ calls["a"].result.ok
    /\ \E h \in HeadsOf(EntityId(1, HomeScope)) : h.latestVersion = MaxVersion
    /\ \E r \in RoutersOf(EntityId(1, HomeScope)) : r.id = 3 /\ r.version = 2
    /\ \E r \in RoutersOf(EntityId(2, HomeScope)) : r.version = 1

\* the first step of setRouterVersion(id, v): "Version not found" and no
\* change when the scope of id has no ledger entry (id, v), and otherwise the
\* call goes on
VersionNotFound ==
    \A p \in Procs : \A id \in ActiveIds, v \in Versions :
        SetRouterVersion(p, id, v) =>
            IF EntriesOf(id, v) = {}
            THEN /\ calls'[p].pc = "done"
                 /\ calls'[p].result = Err("Version not found")
                 /\ tables' = tables
            ELSE /\ calls'[p].pc = "findPromptRouter"
                 /\ calls'[p].version = v

\* C13: setRouterVersion(p, v) fails with "Version not found" whenever the
\* caller's scope holds no ledger entry of p with exactly version v (a version
\* never created, or p of another tenant or project), and then the router row
\* and every other row are unchanged.
C13_VersionNotFound == [][VersionNotFound]_vars

\* the call under another tenant has failed while the prompt has version 2
\* under its own scope and its router is still at 2
C13_Witness ==
    /\ calls["a"].op = "setRouterVersion"
    /\ calls["a"].pc = "done"
    /\ calls["a"].id = EntityId(1, OtherTenant)
    /\ calls["a"].result = Err("Version not found")
    /\ EntriesOf(EntityId(1, HomeScope), 2) # {}
    /\ \E r \in RoutersOf(EntityId(1, HomeScope)) : r.version = 2

\* the value a field has after a partial update
Merged(given, current) == IF given = <<>> THEN current ELSE given[1]

\* the head write of updatePrompt: the merge of the input into the head and
\* latestVersion + 1, nothing else
UpdateWritesHead(p) ==
    \E h \in HeadsOf(calls[p].id) :
        LET input == calls[p].input
            g == [h EXCEPT !.name = Merged(input.name, h.name),
                           !.provider = Merged(input.provider, h.provider),
                           !.model = Merged(input.model, h.model),
                           !.body = Merged(input.body, h.body),
                           !.latestVersion = h.latestVersion + 1]
        IN  /\ prompts' = (prompts \ {h}) \cup {g}
            /\ promptVersions' = promptVersions
            /\ promptRouters' = promptRouters

\* the ledger insert of updatePrompt: one new entry, at the head's
\* latestVersion, with the head's name, provider, model, body and slug
UpdateInsertsEntry(p) ==
    \E id \in {calls[p].id} :
        \E h \in HeadsOf(id) :
            \E e \in promptVersions' :
                /\ e \notin promptVersions
                /\ promptVersions' = promptVersions \cup {e}
                /\ EntriesOf(id, h.latestVersion)' = {e}
                /\ e.name = h.name
                /\ e.provider = h.provider
                /\ e.model = h.model
                /\ e.body = h.body
                /\ e.slug = h.slug
                /\ prompts' = prompts
                /\ promptRouters' = promptRouters

\* the router write of updatePrompt: the router of the prompt is at the head's
\* latestVersion, whatever it was before
UpdateAdvancesRouter(p) ==
    \E id \in {calls[p].id} :
        \E h \in HeadsOf(id) :
            \E r \in promptRouters' :
                /\ RoutersOf(id)' = {r}
                /\ r.version = h.latestVersion
                /\ promptRouters' \ {r} = promptRouters \ RoutersOf(id)
                /\ prompts' = prompts
                /\ promptVersions' = promptVersions

UpdateMerges ==
    \A p \in Procs :
        (/\ calls[p].op = "updatePrompt"
         /\ calls[p].pc \notin {"done", "off"}
         /\ calls'[p] # calls[p])
            => /\ calls[p].pc = "updatePrompt" => UpdateWritesHead(p)
               /\ calls[p].pc = "createPromptVersion" => UpdateInsertsEntry(p)
               /\ calls[p].pc = "findPromptRouter" => tables' = tables
               /\ calls[p].pc = "writeRouter" => UpdateAdvancesRouter(p)

\* between calls the head holds the provider, model and body of its newest entry
HeadMatchesNewest ==
    Quiescent =>
        \A h \in prompts :
            \E e \in EntriesOf(HeadId(h), h.latestVersion) :
                e.provider = h.provider /\ e.model = h.model /\ e.body = h.body

\* C14: a completed updatePrompt(p, partial) that overlaps no other call is a
\* partial merge: name, provider, model and body each take the given value or
\* keep the head's; the head and the new ledger entry at newVersion hold the
\* same merged fields, the entry with the head's slug; and the router of p is
\* at newVersion afterwards, also when it was at an older version before.
C14_PartialMerge == [] HeadMatchesNewest /\ [][UpdateMerges]_vars

\* an update giving name, model and body has written head and entry of version
\* 3 and is about to move the router up from version 1
C14_Witness ==
    /\ At("a", "updatePrompt", "writeRouter")
    /\ calls["a"].newVersion = 3
    /\ calls["a"].existingRouter.version = 1
    /\ \E h \in HeadsOf(calls["a"].id) :
           /\ h.name = NameY
           /\ h.slug = SlugX
           /\ h.provider = "openai"
           /\ h.model = "gpt-4-turbo"
           /\ h.body = "v3"
           /\ \E e \in EntriesOf(calls["a"].id, 3) : e.name = NameY /\ e.slug = SlugX
           /\ \E e \in EntriesOf(calls["a"].id, 2) : e.body = "v2" /\ e.model = "gpt-4"

\* the rows of a parent, whatever scope they carry
LedgerOfParent(id) == {e \in promptVersions : e.promptId = id}

RoutersOfParent(id) == {r \in promptRouters : r.promptId = id}

\* head, ledger and router of parent id are those of a prompt just created
\* from input in scope
FreshParent(id, scope, input) ==
    /\ \E h \in prompts :
           /\ {g \in prompts : g.id = id} = {h}
           /\ RowScope(h) = scope
           /\ h.latestVersion = 1
           /\ h.isActive
           /\ h.name = input.name /\ h.slug = input.slug
           /\ h.provider = input.provider /\ h.model = input.model
           /\ h.body = input.body
    /\ \E e \in promptVersions :
           /\ LedgerOfParent(id) = {e}
           /\ RowScope(e) = scope
           /\ e.version = 1
           /\ e.name = input.name /\ e.slug = input.slug
           /\ e.provider = input.provider /\ e.model = input.model
           /\ e.body = input.body
    /\ \E r \in promptRouters :
           /\ RoutersOfParent(id) = {r}
           /\ RowScope(r) = scope
           /\ r.version = 1

CreateIsConsistent ==
    \A p \in Procs :
        (/\ calls[p].op = "createPrompt"
         /\ calls[p].pc = "createPromptRouter"
         /\ calls'[p].pc = "done")
            => \E c \in {calls[p]} :
                   FreshParent(c.id.id, getProjectId(c.id), c.input)'

\* C15: when createPrompt completes, the new head has latestVersion 1 and
\* isActive true, the ledger of the new parent holds exactly one entry, of
\* version 1 and equal to the input in name, provider, model, body and slug,
\* exactly one router exists for it, at version 1, and head, entry and router
\* carry the caller's tenantId and projectId.
C15_CreateConsistent == [][CreateIsConsistent]_vars

\* a second prompt of the same name and slug has been created for another
\* tenant, next to the first one
C15_Witness ==
    /\ Quiescent
    /\ FreshParent(2, OtherTenant, PromptInput(NameY, SlugY, "v1"))
    /\ \E h \in prompts : h.id = 1 /\ RowScope(h) = HomeScope /\ h.slug = SlugY

\* every ledger entry of the state is in the next state, with all its columns
LedgerKept == \A e \in promptVersions : e \in promptVersions'

\* C16: ledger entries are immutable and never removed: an entry (parent,
\* version) that exists is, after any step of updatePrompt, setRouterVersion,
\* renamePrompt, copyPrompt or deactivatePrompt, still there with the same
\* name, provider, model, body and slug.
C16_LedgerImmutable == [][LedgerKept]_vars

\* prompt 1 was updated, renamed, copied, rolled back and deactivated; its
\* entries of versions 1 and 2 still carry the name and bodies they were
\* written with
C16_Witness ==
    /\ Quiescent
    /\ \E h \in prompts :
           /\ h.id = 1 /\ RowScope(h) = HomeScope
           /\ h.name = NameX /\ ~ h.isActive /\ h.latestVersion = 2
    /\ \E g \in prompts : g.id = 2 /\ RowScope(g) = HomeScope /\ g.slug = CopySlug(SlugY, 1)
    /\ \E r \in RoutersOfParent(1) : r.version = 1
    /\ \E e \in LedgerOfParent(1) : e.version = 1 /\ e.name = NameY /\ e.body = "v1"
    /\ \E e \in LedgerOfParent(1) : e.version = 2 /\ e.name = NameY /\ e.body = "v2"

\* the head of the call's prompt gets the call's name and the slug derived from
\* it, and no other column of any head changes
RenameWritesNameAndSlug(p) ==
    \E c \in {calls[p]} :
        \E h \in HeadsOf(c.id) :
            prompts' = (prompts \ {h})
                           \cup {[h EXCEPT !.name = c.name, !.slug = generateSlug(c.name)]}

RenameFrame ==
    \A p \in Procs :
        /\ \A id \in PromptIds(AllScopes) :
               RenamePrompt(p, id, NameX) => tables' = tables
        /\ (/\ calls[p].op = "renamePrompt"
            /\ calls[p].pc \notin {"done", "off"}
            /\ calls'[p] # calls[p])
               => /\ promptVersions' = promptVersions
                  /\ promptRouters' = promptRouters
                  /\ prompts' = prompts \/ RenameWritesNameAndSlug(p)
                  /\ calls[p].pc # "renamePrompt" => prompts' = prompts

\* C17: renamePrompt is head-only: a rename changes only name and slug of the
\* matching head; latestVersion, provider, model, body and isActive of the
\* head, the set and content of the ledger entries, and every router are
\* unchanged.
C17_RenameHeadOnly == [][RenameFrame]_vars

\* a prompt at version 2 whose router was set back to 1 has just been renamed
C17_Witness ==
    /\ At("a", "renamePrompt", "findPromptById")
    /\ \E h \in HeadsOf(calls["a"].id) :
           /\ h.id = 1
           /\ h.name = NameX /\ h.slug = SlugX
           /\ h.latestVersion = 2 /\ h.body = "v2"
    /\ \E r \in RoutersOfParent(1) : r.version = 1
    /\ \E e \in LedgerOfParent(1) : e.version = 2 /\ e.name = NameY /\ e.slug = SlugY

\* another head of the scope of promptId holds slug
HeldByAnother(promptId, slug) ==
    \E h \in prompts : /\ RowScope(h) = getProjectId(promptId)
                       /\ h.id # promptId.id
                       /\ h.slug = slug

\* the slug check of renamePrompt ends the call with "Slug already in use",
\* nothing written, exactly when another head of the scope holds the derived
\* slug
SlugCheckExact ==
    \A p \in Procs :
        (calls[p].op = "renamePrompt" /\ calls[p].pc = "findPromptBySlug"
             /\ calls'[p] # calls[p])
            => \E c \in {calls[p]} :
                   IF HeldByAnother(c.id, generateSlug(c.name))
                   THEN /\ calls'[p].pc = "done"
                        /\ calls'[p].result = Err("Slug already in use")
                        /\ tables' = tables
                   ELSE calls'[p].pc = "renamePrompt"

\* a rename that passed the slug check succeeds: the head is written and
\* returned with the new name and the derived slug
PassedCheckSucceeds ==
    \A p \in Procs :
        /\ (calls[p].op = "renamePrompt" /\ calls[p].pc = "renamePrompt"
                /\ calls'[p] # calls[p])
               => /\ calls'[p].pc = "findPromptById"
                  /\ RenameWritesNameAndSlug(p)
        /\ (calls[p].op = "renamePrompt" /\ calls[p].pc = "findPromptById"
                /\ calls'[p] # calls[p])
               => /\ calls'[p].result.ok
                  /\ \E h \in HeadsOf(calls[p].id) :
                         /\ calls'[p].result.value.name = h.name
                         /\ calls'[p].result.value.slug = h.slug

\* no two heads of one scope have the same slug
SlugsDistinct ==
    \A h1 \in prompts, h2 \in prompts :
        (RowScope(h1) = RowScope(h2) /\ h1.slug = h2.slug) => h1 = h2

\* C18: renamePrompt(p, name) fails with "Slug already in use" exactly when
\* another entity of the scope holds the slug derived from name, and then
\* leaves p as it is; when the derived slug is held by p alone or by nobody in
\* the scope, the rename succeeds; and no two entities of one scope share a
\* slug afterwards.
C18_SlugInUse ==
    [] SlugsDistinct /\ [][SlugCheckExact /\ PassedCheckSucceeds]_vars

\* slot p takes a step of a call of op that is under way
StepOf(p, op) ==
    /\ calls[p].op = op
    /\ calls[p].pc \notin {"done", "off"}
    /\ calls'[p] # calls[p]

\* every row of the three prompt tables is in the next state as it is
RowsKept ==
    /\ \A h \in prompts : h \in prompts'
    /\ \A e \in promptVersions : e \in promptVersions'
    /\ \A r \in promptRouters : r \in promptRouters'

\* the head the copy inserts: a new id, latestVersion 1, active, in the
\* caller's scope, with provider, model and body of the source's head
CopySeedsFromHead(p) ==
    \E c \in {calls[p]} :
        prompts' # prompts =>
            \E src \in HeadsOf(c.id) :
                \E g \in prompts' :
                    /\ prompts' = prompts \cup {g}
                    /\ g.id \notin {h.id : h \in prompts}
                    /\ g.id \notin {e.promptId : e \in promptVersions}
                    /\ g.id \notin {r.promptId : r \in promptRouters}
                    /\ RowScope(g) = getProjectId(c.id)
                    /\ g.latestVersion = 1
                    /\ g.isActive
                    /\ g.provider = src.provider
                    /\ g.model = src.model
                    /\ g.body = src.body

\* when the copy returns, the new parent has one head, one ledger entry of
\* version 1 with the head's fields, and one router at version 1
CopyCompletes(p) ==
    \E c \in {calls[p]} :
        promptRouters' # promptRouters =>
            FreshParent(c.newPrompt.id, getProjectId(c.id),
                        [name |-> c.newPrompt.name, slug |-> c.newPrompt.slug,
                         provider |-> c.newPrompt.provider,
                         model |-> c.newPrompt.model,
                         body |-> c.newPrompt.body])'

\* a step of a call on one parent leaves the rows of every other parent alone
OtherParentsKept(p) ==
    \E id \in {calls[p].id.id} :
        /\ {h \in prompts : h.id # id} = {h \in prompts' : h.id # id}
        /\ {e \in promptVersions : e.promptId # id}
               = {e \in promptVersions' : e.promptId # id}
        /\ {r \in promptRouters : r.promptId # id}
               = {r \in promptRouters' : r.promptId # id}

CopyIndependent ==
    \A p \in Procs :
        /\ \A id \in CopyIds : CopyPrompt(p, id) => tables' = tables
        /\ StepOf(p, "copyPrompt") =>
               /\ RowsKept
               /\ calls[p].pc = "createPrompt" => CopySeedsFromHead(p)
               /\ calls[p].pc = "createPromptRouter" => CopyCompletes(p)
        /\ (StepOf(p, "updatePrompt") \/ StepOf(p, "setRouterVersion")
                \/ StepOf(p, "renamePrompt")) => OtherParentsKept(p)

\* C19: copyPrompt(src) creates an independent parent and leaves the source as
\* it is: the copy has a fresh id, latestVersion 1, one ledger entry of
\* version 1 and a router at version 1, with provider, model and body of the
\* source's head (not of the source's active version); head, ledger entries
\* and router of the source are unchanged; and a later update, rollback or
\* rename of either parent changes no row of the other.
C19_CopyIndependent == [][CopyIndependent]_vars

\* the source is at version 2 with its router set back to 1; its copy holds
\* the body of version 2 and has since been updated itself
C19_Witness ==
    /\ Quiescent
    /\ \E src \in prompts :
           /\ src.id = 1 /\ RowScope(src) = HomeScope
           /\ src.latestVersion = 2 /\ src.body = "v2"
    /\ \E r \in RoutersOfParent(1) : r.version = 1
    /\ \E e \in LedgerOfParent(1) : e.version = 1 /\ e.body = "v1"
    /\ \E g \in prompts :
           /\ g.id = 2 /\ RowScope(g) = HomeScope
           /\ g.latestVersion = 2
    /\ \E e \in LedgerOfParent(2) : e.version = 1 /\ e.body = "v2"
    /\ Cardinality(LedgerOfParent(1)) = 2
    /\ Cardinality(LedgerOfParent(2)) = 2

\* the number of the first candidate slug no head of the scope holds
FirstUnused(scope, slug) ==
    CHOOSE n \in 1..(MaxHeads + 1) :
        /\ \A h \in prompts : RowScope(h) = scope => h.slug # CopySlug(slug, n)
        /\ \A m \in 1..(n - 1) :
               \E h \in prompts : RowScope(h) = scope /\ h.slug = CopySlug(slug, m)

\* the head a copy inserts has the first unused candidate slug and the name
\* of the same number
CopyPicksFirstUnused ==
    \A p \in Procs :
        (StepOf(p, "copyPrompt") /\ calls[p].pc = "createPrompt"
             /\ prompts' # prompts)
            => \E c \in {calls[p]} :
                   \E src \in HeadsOf(c.id) :
                       \E g \in prompts' :
                           /\ g \notin prompts
                           /\ g.slug = CopySlug(src.slug,
                                                FirstUnused(getProjectId(c.id), src.slug))
                           /\ g.name = CopyName(src.name,
                                                FirstUnused(getProjectId(c.id), src.slug))

\* C20: copy naming is the first unused candidate in a fixed order: copyPrompt
\* picks "<slug>-copy" when no entity of the scope holds it, and otherwise
\* "<slug>-copy-N" for the smallest N >= 2 whose slug is unused, with the name
\* "<name> Copy" or "<name> Copy N" of the same number; so copies of one
\* source made one after the other get -copy, -copy-2, ...
C20_CopyNaming == [][CopyPicksFirstUnused]_vars

\* two copies of "X" made one after the other
C20_Witness ==
    /\ Quiescent
    /\ \E h \in prompts : RowScope(h) = HomeScope /\ h.slug = SlugX /\ h.name = NameX
    /\ \E h \in prompts :
           /\ RowScope(h) = HomeScope
           /\ h.slug = <<"x", "-", "c", "o", "p", "y">>
           /\ h.name = <<"X", " ", "C", "o", "p", "y">>
    /\ \E h \in prompts :
           /\ RowScope(h) = HomeScope
           /\ h.slug = <<"x", "-", "c", "o", "p", "y", "-", "2">>
           /\ h.name = <<"X", " ", "C", "o", "p", "y", " ", "2">>

\* a head of the scope holds the slug or the name
SlugOrNameHeld(scope, slug, name) ==
    \E h \in prompts : RowScope(h) = scope /\ (h.slug = slug \/ h.name = name)

\* the insert of a copy is issued with the slug its probe found unused,
\* whatever was inserted since: the head goes in with that slug, or the
\* insert is rejected and the call ends
InsertUsesProbedSlug ==
    \A p \in Procs :
        (StepOf(p, "copyPrompt") /\ calls[p].pc = "createPrompt")
            => \E c \in {calls[p]} :
                   IF SlugOrNameHeld(getProjectId(c.id), c.newSlug, c.newName)
                   THEN /\ prompts' = prompts
                        /\ calls'[p].pc = "done"
                        /\ calls'[p].result = Err("constraint")
                   ELSE \E g \in prompts' :
                            /\ prompts' = prompts \cup {g}
                            /\ g \notin prompts
                            /\ g.slug = c.newSlug

NotFoundError(op) ==
    CASE op = "updatePrompt" -> "Prompt not found"
      [] op = "renamePrompt" -> "Prompt not found"
      [] op = "copyPrompt" -> "Source prompt not found"
      [] op = "createDataSetRecord" -> "Dataset not found"

\* no row of the table has the id under the scope of the id
Unknown(table, entityId) ==
    \A r \in table : r.id # entityId.id \/ RowScope(r) # getProjectId(entityId)

\* some row has the id, under another tenant or project
Foreign(table, entityId) ==
    /\ Unknown(table, entityId)
    /\ \E r \in table : r.id = entityId.id

\* a call that starts with an id unknown in its scope ends at once with the
\* error of its method, the same whether or not the id exists elsewhere, and
\* writes nothing
NotFoundAlike ==
    \A p \in Procs :
        (calls[p].pc = "done" /\ calls'[p] # calls[p])
            => \E c \in {calls'[p]} :
                   (\/ /\ c.op \in {"updatePrompt", "renamePrompt", "copyPrompt"}
                       /\ Unknown(prompts, c.id)
                    \/ /\ c.op = "createDataSetRecord"
                       /\ Unknown(dataSets, c.id))
                       => /\ c.pc = "done"
                          /\ c.result = Err(NotFoundError(c.op))
                          /\ tables' = tables

\* C22: for updatePrompt, renamePrompt, copyPrompt and createDataSetRecord a
\* call whose id exists only under another tenant or another project ends
\* with exactly the error of a call whose id exists nowhere ("Prompt not
\* found", "Source prompt not found", "Dataset not found"), and in both cases
\* no row of any scope is changed.
C22_NotFoundAlike == [][NotFoundAlike]_vars

\* updatePrompt with the id of an existing prompt under another tenant has
\* returned "Prompt not found"
C22_Witness ==
    /\ calls["a"].pc = "done"
    /\ calls["a"].op = "updatePrompt"
    /\ Foreign(prompts, calls["a"].id)
    /\ calls["a"].id.tenantId # HomeScope.tenantId
    /\ calls["a"].result = Err("Prompt not found")

\* C23: countOfRecords is never negative: in every reachable state of any
\* interleaving of createDataSetRecord and deleteDataSetRecords calls on a
\* dataset, a delete of a record whose creating call has inserted the row but
\* not yet incremented the counter included, countOfRecords >= 0.
C23_CountNonNegative == \A d \in dataSets : d.countOfRecords >= 0

\* the records of a dataset, deleted or not
RecordsOf(d) ==
    {r \in dataSetRecords : r.dataSetId = d.id /\ RowScope(r) = RowScope(d)}

\* the types observed for a path in the records of a dataset
ObservedTypes(d, path) ==
    {collectFields(r.variables, "")[path] :
        r \in {q \in RecordsOf(d) : path \in DOMAIN collectFields(q.variables, "")}}

ObservedPaths(d) ==
    UNION {DOMAIN collectFields(r.variables, "") : r \in RecordsOf(d)}

\* the schema of a dataset is the join of what its records showed
SchemaIsJoin(d) ==
    LET fields == parseSchema(d.schema)
    IN  /\ DOMAIN fields = ObservedPaths(d)
        /\ \A path \in DOMAIN fields :
               IF Cardinality(ObservedTypes(d, path)) = 1
               THEN {fields[path].type} = ObservedTypes(d, path)
               ELSE fields[path].type = "mixed"

\* C24: type-lattice join: folding an observed (path, type) into the schema
\* inserts {type} for a new path, changes nothing for the same type, sets
\* "mixed" for a different type and leaves "mixed" as it is; so after
\* createDataSetRecord calls that do not overlap, on a dataset that started
\* with an empty schema, the type of each path is the single type observed
\* for it in all records, or "mixed" when two different types were observed.
C24_TypeJoin == Quiescent => \A d \in dataSets : SchemaIsJoin(d)

RECURSIVE LeafEntries(_, _)
\* the (path, type) pairs the flattening rules give for a payload below prefix
LeafEntries(value, prefix) ==
    IF value.t = "object" /\ DOMAIN value.f # {}
    THEN UNION {LeafEntries(value.f[key],
                            IF prefix = "" THEN key ELSE prefix \o "." \o key)
                   : key \in DOMAIN value.f}
    ELSE IF value.t = "object"
    THEN IF prefix = "" THEN {} ELSE {<<prefix, "object">>}
    ELSE {<<IF prefix = "" THEN "value" ELSE prefix, value.t>>}

EntriesOfMap(fields) == {<<path, fields[path]>> : path \in DOMAIN fields}

\* C25: flattening: for every payload tree over null, boolean, number, string,
\* array and object, collectFields yields "null" for null, "array" for an
\* array at its own path whatever its elements, "object" for an empty object
\* under a non-empty prefix, the primitive type name for a scalar, and for a
\* non-empty object the entries of its descendants at the dot-joined paths
\* prefix.key and none for the object itself; a top-level empty object yields
\* no entries.
C25_Flattening ==
    \A p \in Procs :
        (calls[p].op = "collectFields" /\ calls[p].pc = "done")
            => EntriesOfMap(calls[p].fields)
                   = LeafEntries(calls[p].value, calls[p].prefix)

\* {a: {a: 5, b: {}}, b: ["s"]} at the top has given a.a, a.b and b
C25_Witness ==
    /\ calls["b"].op = "collectFields"
    /\ calls["b"].pc = "done"
    /\ calls["b"].prefix = ""
    /\ calls["b"].value = Obj([a |-> Obj([a |-> Leaf("number"), b |-> Obj(<<>>)]),
                               b |-> Arr(<<Leaf("string")>>)])
    /\ EntriesOfMap(calls["b"].fields)
           = {<<"a.a", "number">>, <<"a.b", "object">>, <<"b", "array">>}


\* slot p takes a request for op in this step
Starts(p, op) == Free(p) /\ calls'[p].op = op

\* the records a request deleteDataSetRecords(ds, ids) is to delete: listed,
\* live, of that dataset and of the scope of the request
ToDelete(entityId, recordIds) ==
    {r \in dataSetRecords : /\ \E i \in 1..Len(recordIds) : recordIds[i] = r.id
                            /\ r.isDeleted = FALSE
                            /\ r.dataSetId = entityId.id
                            /\ RowScope(r) = getProjectId(entityId)}

\* the soft delete marks exactly those records and reports their number; with
\* none to delete the call has returned {deleted: 0} and touched no dataset
DeleteMarksExactly ==
    \A p \in {q \in Procs : Starts(q, "deleteDataSetRecords")},
       entityId \in DataSetIds(DeleteScopes), recordIds \in RecordIdLists :
        DeleteDataSetRecords(p, entityId, recordIds) =>
            LET marked == ToDelete(entityId, recordIds)
            IN  /\ dataSetRecords' =
                       (dataSetRecords \ marked)
                           \cup {[r EXCEPT !.isDeleted = TRUE] : r \in marked}
                /\ dataSets' = dataSets
                /\ IF marked = {}
                   THEN /\ calls'[p].pc = "done"
                        /\ calls'[p].result = Ok([deleted |-> 0])
                   ELSE /\ calls'[p].pc = "incrementRecordCountBy"
                        /\ calls'[p].deleted = Cardinality(marked)

\* the decrement takes the reported number off the counter of that dataset,
\* leaves its schema and every other row alone and returns the number
DecrementByDeleted ==
    \A p \in Procs :
        DeleteDataSetRecordsDecrement(p) =>
            \E c \in {calls[p]} :
                /\ dataSetRecords' = dataSetRecords
                /\ calls'[p].result = Ok([deleted |-> c.deleted])
                /\ \A d \in dataSets :
                       IF d.id = c.id.id /\ RowScope(d) = getProjectId(c.id)
                       THEN [d EXCEPT !.countOfRecords = @ - c.deleted]
                                \in dataSets'
                       ELSE d \in dataSets'
                /\ Cardinality(dataSets') = Cardinality(dataSets)

\* C26: deleteDataSetRecords(ds, ids) marks deleted exactly the records that
\* are listed in ids, live and of ds under the scope of the request, returns
\* their number and lowers countOfRecords by that number, whatever the length
\* of ids; ids that are deleted already, unknown, foreign or repeated add
\* nothing and raise no error, and the schema is not changed.
C26_DeleteExactly == [][DeleteMarksExactly /\ DecrementByDeleted]_vars

C26_Witness ==
    /\ At("b", "deleteDataSetRecords", "incrementRecordCountBy")
    /\ calls["b"].deleted = 1
    /\ \E r \in dataSetRecords :
           r.dataSetId = calls["b"].id.id /\ r.isDeleted = TRUE
    /\ \E r \in dataSetRecords :
           r.dataSetId # calls["b"].id.id /\ r.isDeleted = FALSE
    /\ Cardinality(dataSetRecords) = MaxRecords


\* a request that has deleted its records leaves none for the same request
NothingLeftToDelete ==
    \A p \in {q \in Procs : Starts(q, "deleteDataSetRecords")},
       entityId \in DataSetIds(DeleteScopes), recordIds \in RecordIdLists :
        DeleteDataSetRecords(p, entityId, recordIds) =>
            ToDelete(entityId, recordIds)' = {}

\* a request with nothing to delete, the empty list included, returns
\* {deleted: 0} at once and changes no row
NothingToDeleteIsNoOp ==
    \A p \in {q \in Procs : Starts(q, "deleteDataSetRecords")},
       entityId \in DataSetIds(DeleteScopes), recordIds \in RecordIdLists :
        (/\ DeleteDataSetRecords(p, entityId, recordIds)
         /\ (recordIds = <<>> \/ ToDelete(entityId, recordIds) = {})) =>
            /\ tables' = tables
            /\ calls'[p].pc = "done"
            /\ calls'[p].result = Ok([deleted |-> 0])

\* deleteDataSet of an id that names no live dataset of the scope of the
\* request changes no row and returns without an error
DeleteAbsentDataSetIsNoOp ==
    \A p \in {q \in Procs : Starts(q, "deleteDataSet")},
       entityId \in DataSetIds(DeleteScopes) :
        (DeleteDataSet(p, entityId) /\ ~ Found(findById(entityId))) =>
            /\ tables' = tables
            /\ calls'[p].result.ok

\* C27: soft deletes of absent targets are no-ops: deleteDataSetRecords
\* repeated with the same ids, or given no ids, returns {deleted: 0} and
\* changes nothing; deleteDataSet of a dataset that is deleted already, of an
\* id that does not exist or of an id under another scope changes no isDeleted
\* flag and raises no error.
C27_SoftDeleteIdempotent ==
    [][/\ NothingLeftToDelete
       /\ NothingToDeleteIsNoOp
       /\ DeleteAbsentDataSetIsNoOp]_vars

C27_Witness ==
    /\ calls["b"].op = "deleteDataSet"
    /\ calls["b"].pc = "done"
    /\ calls["b"].result.ok
    /\ \E d \in dataSets : /\ d.id = calls["b"].id.id
                           /\ RowScope(d) # getProjectId(calls["b"].id)
                           /\ d.isDeleted = FALSE
    /\ \E d \in dataSets : d.isDeleted = TRUE
    /\ \E r \in dataSetRecords : r.isDeleted = TRUE


\* the id names a dataset of its scope that has been soft-deleted
Gone(entityId) ==
    \E d \in dataSets : toWhereClause(entityId, d) /\ d.isDeleted = TRUE

RecordStoreOps ==
    {"createDataSetRecord", "deleteDataSetRecords",
     "listDataSetRecordsPaginated"}

\* C28: once deleteDataSet(ds) has completed, createDataSetRecord,
\* deleteDataSetRecords and listDataSetRecordsPaginated against ds under that
\* scope behave as "Dataset not found": no step of such a call changes a
\* record or a dataset row, and the call ends in an error, returning no record.
C28_DeletedIsNotFound ==
    [][\A p \in Procs :
          (/\ calls'[p] # calls[p]
           /\ calls'[p].op \in RecordStoreOps
           /\ Gone(calls'[p].id)) =>
              /\ tables' = tables
              /\ calls'[p].pc = "done" => ~ calls'[p].result.ok]_vars


\* slot p holds the result of a listDataSetRecordsPaginated call
Listed(p) == calls[p].op = "listDataSetRecordsPaginated" /\ calls[p].pc = "done"

\* C29: listDataSetRecordsPaginated with an id that names no dataset under
\* the scope of the request (none exists, or it is another tenant's) does not
\* fail: it returns records = [], total = 0 and totalPages = 0.
C29_ListUnknownEmpty ==
    \A p \in Procs :
        (Listed(p) /\ \A d \in dataSets : ~ toWhereClause(calls[p].id, d)) =>
            /\ calls[p].result.ok
            /\ calls[p].result.value.records = <<>>
            /\ calls[p].result.value.total = 0
            /\ calls[p].result.value.totalPages = 0

C29_Witness ==
    /\ Listed("b")
    /\ \A d \in dataSets : ~ toWhereClause(calls["b"].id, d)
    /\ \E d \in dataSets : d.id = calls["b"].id.id /\ d.countOfRecords > 0
    /\ \E r \in dataSetRecords :
           r.dataSetId = calls["b"].id.id /\ r.isDeleted = FALSE


\* the live records of the dataset a request names, under its scope
LiveOf(entityId) ==
    {r \in dataSetRecords : /\ r.dataSetId = entityId.id
                            /\ RowScope(r) = getProjectId(entityId)
                            /\ r.isDeleted = FALSE}

\* the number of live records of the same dataset created after r
NewerThan(r, live) == Cardinality({o \in live : o.id > r.id})

\* the result v of a request for a page of the records live
PageOf(v, pagination, live) ==
    LET total == Cardinality(live)
        offset == (pagination.page - 1) * pagination.pageSize
        rest == IF total > offset THEN total - offset ELSE 0
    IN  /\ v.total = total
        /\ v.page = pagination.page
        /\ v.pageSize = pagination.pageSize
        /\ v.totalPages * pagination.pageSize >= total
        /\ v.totalPages >= 0
        /\ v.totalPages > 0 => (v.totalPages - 1) * pagination.pageSize < total
        /\ Len(v.records) = (IF rest < pagination.pageSize
                             THEN rest ELSE pagination.pageSize)
        /\ \A i \in 1..Len(v.records) :
               /\ v.records[i] \in live
               /\ NewerThan(v.records[i], live) = offset + i - 1

\* C30: with page >= 1, pageSize >= 1 and no writer at work during the call,
\* listDataSetRecordsPaginated returns total = the number of live records of
\* the dataset, totalPages = ceil(total / pageSize) (0 for total = 0) and the
\* live records from position (page - 1) * pageSize on, at most pageSize of
\* them, newest first; a page past the last is empty with the same total and
\* totalPages; soft-deleted records are neither returned nor counted.
C30_Pagination ==
    \A p \in Procs, pagination \in Paginations :
        (/\ Listed(p)
         /\ calls[p].result.ok
         /\ calls[p].result.value.page = pagination.page
         /\ calls[p].result.value.pageSize = pagination.pageSize) =>
            PageOf(calls[p].result.value, pagination, LiveOf(calls[p].id))

C30_Witness ==
    /\ Listed("b")
    /\ calls["b"].result.value.page = 2
    /\ calls["b"].result.value.pageSize = 1
    /\ calls["b"].result.value.total = 2
    /\ calls["b"].result.value.totalPages = 2
    /\ Len(calls["b"].result.value.records) = 1
    /\ \E r \in dataSetRecords : /\ r.dataSetId = calls["b"].id.id
                                 /\ r.isDeleted = TRUE
                                 /\ r.id > calls["b"].result.value.records[1].id


\* the total a call has after this step: in its result once it has returned
TotalAfter(p) ==
    IF calls'[p].pc = "done" THEN calls'[p].result.value.total
    ELSE calls'[p].total

\* C31: the total of listDataSetRecordsPaginated is the aggregate counter of
\* the dataset: whenever the call obtains its total, also while a
\* createDataSetRecord or deleteDataSetRecords on the dataset is between its
\* statements, the total equals countOfRecords of the dataset.
C31_TotalIsCounter ==
    [][\A p \in Procs :
          ListCountRecords(p) =>
              \A d \in dataSets :
                  toWhereClause(calls[p].id, d) =>
                      TotalAfter(p) = d.countOfRecords]_vars


\* the operations of the claim: each works on one parent
ParentOps ==
    {"updatePrompt", "setRouterVersion", "renamePrompt",
     "createDataSetRecord", "deleteDataSetRecords"}

\* the call slot p works on in this step: the one under way, else the one taken
CallOf(p) == IF Free(p) THEN calls'[p] ELSE calls[p]

\* the dataset row of parent id
DataSetsOfParent(id) == {d \in dataSets : d.id = id}

\* head, ledger, router and dataset row (counter, schema) of parent id stay
ParentKept(id) ==
    /\ {h \in prompts' : h.id = id} = {h \in prompts : h.id = id}
    /\ LedgerOfParent(id)' = LedgerOfParent(id)
    /\ RoutersOfParent(id)' = RoutersOfParent(id)
    /\ DataSetsOfParent(id)' = DataSetsOfParent(id)

\* a step of an operation on one parent leaves every other parent as it is
OtherParentsUnchanged ==
    \A p \in Procs :
        (calls'[p] # calls[p] /\ CallOf(p).op \in ParentOps) =>
            \A id \in 1..MaxHeads : id # CallOf(p).id.id => ParentKept(id)

\* C32: operations on different parents of a scope do not touch each other:
\* every step of updatePrompt, setRouterVersion, renamePrompt,
\* createDataSetRecord or deleteDataSetRecords on parent P, also while a call
\* on another parent Q is between its statements, leaves head, ledger, router,
\* counter and schema of Q unchanged.
C32_ParentsIndependent == [][OtherParentsUnchanged]_vars

C32_Witness ==
    /\ At("a", "updatePrompt", "writeRouter")
    /\ At("b", "renamePrompt", "renamePrompt")
    /\ \E h \in prompts : h.id = 1 /\ h.latestVersion = 2
    /\ \E h \in prompts : h.id = 2 /\ h.latestVersion = 2

\* the statement with its consequence for serial orders: an operation on P
\* ends as it does when it runs before the operation on Q. In this
\* specification no prompt is created with the name of the renames, so a
\* renamePrompt that runs first gives its prompt that name; the same must then
\* hold for every renamePrompt on an existing prompt.
C32_SerialOrdersAgree ==
    [][/\ OtherParentsUnchanged
       /\ \A p \in Procs :
              (/\ calls[p].op = "renamePrompt"
               /\ calls[p].pc # "done"
               /\ calls'[p].pc = "done") =>
                  \E id \in {calls[p].id} :
                      \E h \in prompts' : h.id = id.id /\ h.name = NameXY]_vars


\* every row of the table is in the table after the step, under the same id,
\* and deleted there if it was deleted before
RowsStayMarked(table, tableAfter) ==
    \A r \in table :
        \E n \in tableAfter :
            /\ n.id = r.id
            /\ RowScope(n) = RowScope(r)
            /\ r.isDeleted = TRUE => n.isDeleted = TRUE

\* C33: soft deletion is one-way and never physical: no step of any operation
\* removes a dataset row or a record row, and a row whose isDeleted is true
\* has isDeleted true in every later state.
C33_SoftDeleteOneWay ==
    [][/\ RowsStayMarked(dataSets, dataSets')
       /\ RowsStayMarked(dataSetRecords, dataSetRecords')]_vars

C33_Witness ==
    /\ \E d \in dataSets : d.isDeleted = TRUE /\ d.id = 1
    /\ \E r \in dataSetRecords : r.isDeleted = TRUE /\ r.dataSetId = 1
    /\ \E r \in dataSetRecords : r.isDeleted = FALSE /\ r.dataSetId = 2
    /\ calls["b"].op = "deleteDataSetRecords"
    /\ calls["b"].pc = "done"
    /\ calls["b"].id.id = 1


\* the call adds grow to the counter of the row it names and changes no other
\* field or row
CounterGrowsBy(p, grow) ==
    \E c \in {calls[p]} :
        dataSets' = {IF d.id = c.id.id /\ RowScope(d) = getProjectId(c.id)
                        THEN [d EXCEPT !.countOfRecords = @ + grow]
                        ELSE d : d \in dataSets}

C35_CopyNameAndSlugUnused ==
    \A p \in Procs :
        At(p, "copyPrompt", "createPrompt") =>
            ~ SlugOrNameHeld(getProjectId(calls[p].id), calls[p].newSlug,
                             calls[p].newName)


\* C36: with createPrompt and updatePrompt alone, whenever no call is in
\* flight, also after updatePrompt calls that overlapped, the router of every
\* prompt names Head.latestVersion.
C36_RouterFollowsLatest ==
    Quiescent =>
        \A h \in prompts :
            \A r \in RoutersOf(HeadId(h)) : r.version = h.latestVersion


\* the body an updatePrompt call has written into the ledger of head h is the
\* body of h: the updates of this specification that supply a body supply "v2"
\* and no call supplies another
BodyKept(h) ==
    (\E e \in LedgerOfParent(h.id) : e.body = "v2") => h.body = "v2"

\* the content of head h is that of its ledger entry at latestVersion
HeadIsNewestEntry(h) ==
    \A e \in EntriesOf(HeadId(h), h.latestVersion) :
        /\ h.name = e.name
        /\ h.provider = e.provider
        /\ h.model = e.model
        /\ h.body = e.body

\* C37: no field update is lost: when an updatePrompt call that changes the
\* body overlaps with one that supplies no body, then once both are over the
\* head holds the changed body, and name, provider, model and body of the head
\* are those of the ledger entry at Head.latestVersion.
C37_NoLostUpdate ==
    Quiescent => \A h \in prompts : BodyKept(h) /\ HeadIsNewestEntry(h)


\* the rows of dataset d gain no record in the step
NoRecordAdded(d) ==
    \A r \in dataSetRecords' \ dataSetRecords : r.dataSetId # d.id

\* countOfRecords and schema of dataset d are the same after the step
CountAndSchemaKept(d) ==
    \A e \in dataSets' :
        e.id = d.id
            => e.countOfRecords = d.countOfRecords /\ e.schema = d.schema

\* C38: no write lands on a deleted dataset: in every step of overlapping
\* createDataSetRecord and deleteDataSet calls, a dataset that is marked
\* isDeleted gains no record and keeps its countOfRecords and its schema.
C38_NoWriteOnDeleted ==
    [][\A d \in dataSets :
           d.isDeleted => NoRecordAdded(d) /\ CountAndSchemaKept(d)]_vars


\* the rows of a table that lie in the scope of entityId
InScopeOf(table, entityId) ==
    {r \in table : RowScope(r) = getProjectId(entityId)}

\* copyNumber and attempt count the findPromptBySlug / findBySlug calls made
ProbesBounded ==
    \A p \in Procs :
        /\ calls[p].op = "copyPrompt"
           /\ calls[p].pc \in {"findPromptBySlug", "createPrompt"}
               => calls[p].copyNumber
                      <= Cardinality(InScopeOf(prompts, calls[p].id)) + 1
        /\ calls[p].op = "createDataSet" /\ ~ Free(p)
               => calls[p].attempt
                      <= Cardinality(InScopeOf(dataSets, calls[p].id)) + 1

InFlight(p, op) == calls[p].op = op /\ ~ Free(p)

\* C39: the slug-probing loops terminate: with one client, a copyPrompt or
\* createDataSet call has made at most (rows of its scope + 1) probes at any
\* point up to its insert, and under weak fairness on the steps of a call every
\* started copyPrompt and createDataSet comes to its end, with a result or an
\* error.
C39_ProbingTerminates ==
    /\ []ProbesBounded
    /\ \A p \in Procs : InFlight(p, "copyPrompt") ~> Free(p)
    /\ \A p \in Procs : InFlight(p, "createDataSet") ~> Free(p)

\* a copyPrompt at its insert after two probes, the first of which met a
\* prompt of the scope, with a dataset that createDataSet gave its second slug
C39_Witness ==
    /\ \E p \in Procs : /\ At(p, "copyPrompt", "createPrompt")
                        /\ calls[p].copyNumber = 2
                        /\ Cardinality(InScopeOf(prompts, calls[p].id)) = 2
    /\ \E d \in dataSets : d.slug = SlugX \o <<"-", Digit(2)>>

=============================================================================
